---- MODULE Spec2Model ----
(***************************************************************************)
(* Account-discovery subsystem of privacyguard.                            *)
(*                                                                         *)
(*   DiscoveryService (src/unnamed/part_003): the job manager. It owns     *)
(*   the active registry (activeJobs, a Map keyed by user id), the job     *)
(*   history (jobHistory, a Map keyed by job id, at most 100 entries) and  *)
(*   the reaper (cleanupStaleJobs on a setInterval).                       *)
(*                                                                         *)
(*   AccountDiscoveryEngine (src/privacyguard/src/discovery/               *)
(*   DiscoveryEngine.js): one discovery run: requester lookup, the task    *)
(*   chunks of executeDiscoveryAcrossPlatforms, then persistence.          *)
(*                                                                         *)
(* JavaScript runs one callback at a time, so every action below is the    *)
(* code that runs between two suspension points (await, timer, I/O).       *)
(***************************************************************************)
EXTENDS Integers, Sequences, FiniteSets, TLC

(***************************************************************************)
(* Bounds of the model.                                                    *)
(***************************************************************************)
\* job ids generateJobId hands out in one behaviour
MaxJobs == 3
\* startDiscovery calls that wait for User.findById at the same time
MaxPending == 2
\* tasks the discovery run of a job builds (identifiers x platforms)
JobTasks == 2
\* tasks a direct call of executeDiscoveryAcrossPlatforms may be given
MaxTasks == 6
\* largest configured maxConcurrentDiscoveries of a direct engine call
MaxLimit == 3

(***************************************************************************)
(* Program constants, scaled down: config.jobTimeoutMs (default 300000 ms) *)
(* is one clock step, and the history keeps 2 entries where                *)
(* moveJobToHistory keeps 100. Every formula below is stated in terms of   *)
(* the names. config.maxActiveJobs (default 10) is an argument of the      *)
(* constructor: the initial states choose it.                              *)
(***************************************************************************)
jobTimeoutMs == 1
HistoryLimit == 2

JobIds == 1..MaxJobs
\* run 0 is a direct call of the engine (quickDiscovery), run j > 0 is job j
Runs == 0..MaxJobs

Terminal == {"completed", "failed", "cancelled", "timeout"}
NonTerminal == {"starting", "in_progress"}

VARIABLES
  activeJobs,   \* Map userId -> job, in insertion order: Seq of [userId, id, elapsed]
  jobHistory,   \* Map jobId -> copy of the job, in insertion order:
                \* Seq of [id, status, cancelled, error]
  jobs,         \* the job objects: [JobIds -> [userId, status, cancelled, error]]
  nextJobId,    \* number of job ids generated so far
  calls,        \* [Users -> number of startDiscovery calls awaiting User.findById]
  ret,          \* what the step just taken returned to the caller of the service
  maxActiveJobs,            \* config.maxActiveJobs of the service
  maxConcurrentDiscoveries, \* config.maxConcurrentDiscoveries of the engine
  maxRetryAttempts,         \* config.maxRetryAttempts of the engine
  pc,           \* [Runs -> position of the discovery run]
  chunkIdx,     \* [Runs -> index of the chunk the run is in (0 before the first)]
  taskState,    \* [Runs -> Seq of "pending" | "running" | "settled"], one per task
  delays,       \* [Runs -> number of inter-chunk sleeps that have elapsed]
  args,         \* the arguments of the engine function that is called directly
  value,        \* what that function returned, <<>> before it has returned
  tasks,        \* the tasks of run 0: Seq of [platform, identifier]
  probe,        \* the retry loop of each task of run 0: Seq of
                \* [phase, attempt, calls, waits, time, outcome]
  chunking,     \* the chunkArray loop under way: [i, chunks], or NotChunking
  store,        \* the Account collection, the documents of one requester in
                \* insertion order: Seq of [platform, email, username,
                \* confidence, detectionMethod, metadata]
  saveLoop      \* the saveDiscoveredAccounts call under way or last made:
                \* [pass, accounts, next, savedAccounts, earlier]

config == <<maxActiveJobs, maxConcurrentDiscoveries, maxRetryAttempts>>
db == <<store, saveLoop>>
detail == <<args, value, tasks, probe, chunking, db>>
engVars == <<config, pc, chunkIdx, taskState, delays, detail>>
vars == <<activeJobs, jobHistory, jobs, nextJobId, calls, ret,
          config, pc, chunkIdx, taskState, delays, detail>>

\* the requesters: one more than the registry can hold
Users == 1..(maxActiveJobs + 1)

NoReturn == [op |-> "none", jobId |-> 0, result |-> "none"]

\* no saveDiscoveredAccounts call has been made
NotSaving == [pass |-> 0, accounts |-> <<>>, next |-> 0, savedAccounts |-> <<>>,
              attempted |-> {},
              earlier |-> {}]

\* a job object nothing refers to any more
Released == [userId |-> 0, status |-> "none", cancelled |-> FALSE, error |-> "none"]

(***************************************************************************)
(* Map helpers.                                                            *)
(***************************************************************************)
\* activeJobs.has(userId)
HasActive(reg, u) == \E i \in 1..Len(reg) : reg[i].userId = u

\* activeJobs.get(userId).id
ActiveId(reg, u) == reg[CHOOSE i \in 1..Len(reg) : reg[i].userId = u].id

\* the job ids held by the registry
ActiveIds(reg) == {reg[i].id : i \in 1..Len(reg)}

\* a delete that removes nothing
DeleteNothing(reg, u) == reg

\* activeJobs.delete(userId)
DeleteActive(reg, u) == SelectSeq(reg, LAMBDA e : e.userId # u)

\* jobHistory.has(jobId)
HasHistory(hist, id) == \E i \in 1..Len(hist) : hist[i].id = id

\* the keys of jobHistory, in insertion order
HistoryIds(hist) == [i \in 1..Len(hist) |-> hist[i].id]

\* jobHistory.get(jobId).status
HistoryStatus(hist, id) == hist[CHOOSE i \in 1..Len(hist) : hist[i].id = id].status

\* jobHistory.set(job.id, {...job}): a key already present keeps its place
HistorySet(hist, id, job) ==
  LET copy == [id |-> id, status |-> job.status, cancelled |-> job.cancelled,
               error |-> job.error]
  IN  IF HasHistory(hist, id)
      THEN [i \in 1..Len(hist) |-> IF hist[i].id = id THEN copy ELSE hist[i]]
      ELSE Append(hist, copy)

\* an eviction that takes the newest entry
EvictNewest(hist) == SubSeq(hist, 1, Len(hist) - 1)

\* the eviction of moveJobToHistory: delete jobHistory.keys().next().value
EvictOldest(hist) == Tail(hist)

\* a move to history that never evicts
MoveWithoutEviction(hist, id, job) == HistorySet(hist, id, job)

\* moveJobToHistory(job), job being the object with id "id"
MoveJobToHistory(hist, id, job) ==
  LET stored == HistorySet(hist, id, job)
  IN  IF Len(stored) > HistoryLimit THEN EvictOldest(stored) ELSE stored

\* getJobStatus(jobId).status, "null" when the id is in neither map
GetJobStatus(id) ==
  IF id \in ActiveIds(activeJobs) THEN jobs[id].status
  ELSE IF HasHistory(jobHistory, id) THEN HistoryStatus(jobHistory, id)
  ELSE "null"

(***************************************************************************)
(* chunkArray and the chunks of a run.                                     *)
(***************************************************************************)
Min(a, b) == IF a < b THEN a ELSE b

\* chunkArray(array, chunkSize), for chunkSize >= 1
RECURSIVE ChunkFrom(_, _, _)
ChunkFrom(array, chunkSize, i) ==
  IF i > Len(array) THEN <<>>
  ELSE <<SubSeq(array, i, Min(i + chunkSize - 1, Len(array)))>>
         \o ChunkFrom(array, chunkSize, i + chunkSize)

\* a chunking that puts one element too many into every chunk
chunkArrayOffByOne(array, chunkSize) == ChunkFrom(array, chunkSize + 1, 1)

chunkArray(array, chunkSize) == ChunkFrom(array, chunkSize, 1)

\* taskChunks of run r: the task indices 1..n cut by the concurrency limit
TaskChunks(r) ==
  chunkArray([t \in 1..Len(taskState[r]) |-> t], maxConcurrentDiscoveries)

\* taskChunks.indexOf(chunk), counted from 1
IndexOf(chunks, chunk) == CHOOSE i \in 1..Len(chunks) : chunks[i] = chunk

SeqToSet(s) == {s[i] : i \in 1..Len(s)}

\* chunk.map(task => this.executeDiscoveryTask(task)): every task of the chunk starts
StartTasks(states, chunk) ==
  [t \in 1..Len(states) |-> IF t \in SeqToSet(chunk) THEN "running" ELSE states[t]]

(***************************************************************************)
(* Initial state: the constructor of DiscoveryService.                     *)
(***************************************************************************)
InitManager ==
  /\ activeJobs = <<>>
  /\ jobHistory = <<>>
  /\ jobs = [j \in JobIds |-> Released]
  /\ nextJobId = 0
  /\ calls = [u \in Users |-> 0]
  /\ ret = NoReturn

\* no chunkArray call is under way
NotChunking == [i |-> 0, chunks |-> <<>>]

InitDb ==
  /\ store = <<>>
  /\ saveLoop = NotSaving

InitRuns ==
  /\ InitDb
  /\ pc = [r \in Runs |-> "idle"]
  /\ chunkIdx = [r \in Runs |-> 0]
  /\ taskState = [r \in Runs |-> <<>>]
  /\ delays = [r \in Runs |-> 0]
  /\ args = <<>>
  /\ value = <<>>
  /\ chunking = NotChunking
  /\ tasks = <<>>
  /\ probe = <<>>

\* new DiscoveryService({maxActiveJobs: 1, maxConcurrentDiscoveries: 1})
Init ==
  /\ maxActiveJobs = 1
  /\ maxConcurrentDiscoveries = 1
  /\ maxRetryAttempts = 3
  /\ InitManager
  /\ InitRuns

(***************************************************************************)
(* The discovery run: discoverUserAccounts and                             *)
(* executeDiscoveryAcrossPlatforms.                                        *)
(***************************************************************************)
\* a delay test that is off by one: no sleep after the last two chunks
DelayFollowsOffByOne(chunks, chunk) == IndexOf(chunks, chunk) < Len(chunks) - 1

\* the delay test after a chunk: taskChunks.indexOf(chunk) < taskChunks.length - 1
DelayFollows(chunks, chunk) == IndexOf(chunks, chunk) < Len(chunks)

\* Promise.allSettled over the chunk has resolved: every task of it has settled
AnySettled(states, chunk) == \E t \in SeqToSet(chunk) : states[t] = "settled"

AllSettled(states, chunk) == \A t \in SeqToSet(chunk) : states[t] = "settled"

\* the locals of a run are gone when it has returned
EndRun(r) ==
  /\ taskState' = [taskState EXCEPT ![r] = <<>>]
  /\ chunkIdx' = [chunkIdx EXCEPT ![r] = 0]
  /\ delays' = [delays EXCEPT ![r] = 0]

\* the entry the finally block of executeDiscovery deletes: activeJobs.delete(job.userId)
RemoveFinished(reg, j) == DeleteActive(reg, jobs[j].userId)

\* the end of executeDiscovery(job): the status and the error of the try or the
\* catch block, then the finally block. The job object is garbage from here on: the history
\* holds a copy of it ({...job}) and the execution has returned.
EndJob(j, status, error) ==
  /\ jobs' = [jobs EXCEPT ![j] = Released]
  /\ jobHistory' = MoveJobToHistory(jobHistory, j,
                      [jobs[j] EXCEPT !.status = status, !.error = error])
  /\ activeJobs' = RemoveFinished(activeJobs, j)
  /\ pc' = [pc EXCEPT ![j] = "done"]
  /\ EndRun(j)

\* the end in the try block: no job.error is set
FinishJob(j, status) == EndJob(j, status, jobs[j].error)

\* the end in the catch block: status failed, job.error = error.message
FailJob(j, message) == EndJob(j, "failed", message)

\* executeDiscoveryAcrossPlatforms returns its results. quickDiscovery (run 0)
\* returns them. discoverUserAccounts (run of job r) analyses them, saves the
\* accounts, updates the user and returns, and executeDiscovery ends with status
\* completed: these awaits touch neither the registry nor the history nor
\* another run, so they are taken together with the step that ends the chunks.
ReturnResults(r, states, slept) ==
  IF r = 0
  THEN /\ pc' = [pc EXCEPT ![r] = "done"]
       /\ taskState' = [taskState EXCEPT ![r] = states]
       /\ delays' = [delays EXCEPT ![r] = slept]
       /\ UNCHANGED <<chunkIdx, activeJobs, jobHistory, jobs>>
  ELSE FinishJob(r, "completed")

\* the for loop over chunks takes its next chunk and starts every task of it,
\* or ends after the last chunk; slept is the number of sleeps so far
NextChunk(r, chunks, states, slept) ==
  IF chunkIdx[r] < Len(chunks)
  THEN /\ chunkIdx' = [chunkIdx EXCEPT ![r] = chunkIdx[r] + 1]
       /\ taskState' = [taskState EXCEPT ![r] =
                          StartTasks(states, chunks[chunkIdx[r] + 1])]
       /\ pc' = [pc EXCEPT ![r] = "chunk"]
       /\ delays' = [delays EXCEPT ![r] = slept]
       /\ UNCHANGED <<activeJobs, jobHistory, jobs>>
  ELSE ReturnResults(r, states, slept)

\* executeDiscoveryAcrossPlatforms up to its first await: n tasks are built and
\* chunked, the tasks of the first chunk start; with no task it returns at once
ExecuteDiscoveryAcrossPlatforms(r, n) ==
  LET fresh  == [t \in 1..n |-> "pending"]
      chunks == chunkArray([t \in 1..n |-> t], maxConcurrentDiscoveries)
  IN  IF Len(chunks) = 0
      THEN ReturnResults(r, fresh, 0)
      ELSE /\ taskState' = [taskState EXCEPT ![r] = StartTasks(fresh, chunks[1])]
           /\ chunkIdx' = [chunkIdx EXCEPT ![r] = 1]
           /\ pc' = [pc EXCEPT ![r] = "chunk"]
           /\ delays' = [delays EXCEPT ![r] = 0]
           /\ UNCHANGED <<activeJobs, jobHistory, jobs>>

\* one task of the running chunk settles (executeDiscoveryTask returns: it catches
\* every error, so the promise is always fulfilled). When it is the last one of
\* the chunk, Promise.allSettled resolves and the loop body goes on: the results
\* are collected, then the run sleeps or goes to the next iteration.
TaskSettles(r, t) ==
  /\ pc[r] = "chunk"
  /\ t \in 1..Len(taskState[r])
  /\ taskState[r][t] = "running"
  /\ LET states == [taskState[r] EXCEPT ![t] = "settled"]
         chunks == TaskChunks(r)
         chunk  == chunks[chunkIdx[r]]
     IN  IF ~AllSettled(states, chunk)
         THEN /\ taskState' = [taskState EXCEPT ![r] = states]
              /\ UNCHANGED <<pc, chunkIdx, delays, activeJobs, jobHistory, jobs>>
         ELSE IF DelayFollows(chunks, chunk)
         THEN /\ taskState' = [taskState EXCEPT ![r] = states]
              /\ pc' = [pc EXCEPT ![r] = "delay"]
              /\ UNCHANGED <<chunkIdx, delays, activeJobs, jobHistory, jobs>>
         ELSE NextChunk(r, chunks, states, delays[r])

\* a task settles in a run whose tasks are not looked into
SettleTask(r, t) ==
  /\ TaskSettles(r, t)
  /\ ret' = NoReturn
  /\ UNCHANGED <<nextJobId, calls, config, detail>>

\* sleep(delayBetweenRequests) resolves and the loop goes to its next iteration
DelayElapsed(r) ==
  /\ pc[r] = "delay"
  /\ NextChunk(r, TaskChunks(r), taskState[r], delays[r] + 1)
  /\ ret' = NoReturn
  /\ UNCHANGED <<nextJobId, calls, config, detail>>

(***************************************************************************)
(* DiscoveryService.                                                       *)
(***************************************************************************)
\* the number of startDiscovery calls in flight
RECURSIVE SumUpTo(_, _)
SumUpTo(f, n) == IF n = 0 THEN 0 ELSE f[n] + SumUpTo(f, n - 1)

Pending(c) == SumUpTo(c, maxActiveJobs + 1)

\* startDiscovery up to "await User.findById(userId)"
StartDiscoveryCall(u) ==
  /\ Pending(calls) < MaxPending
  /\ calls' = [calls EXCEPT ![u] = calls[u] + 1]
  /\ ret' = NoReturn
  /\ UNCHANGED <<activeJobs, jobHistory, jobs, nextJobId>>
  /\ UNCHANGED engVars

\* a start that does not look for an active job of the requester
NeverActive(u) == FALSE

\* the check for an active job of the requester: this.activeJobs.has(userId)
AlreadyActive(u) == HasActive(activeJobs, u)

\* an active job limit that is off by one
AtCapacityOffByOne == Len(activeJobs) > maxActiveJobs

\* the active job limit: this.activeJobs.size >= this.config.maxActiveJobs
AtCapacity == Len(activeJobs) >= maxActiveJobs

\* a lookup that never misses a user
UserNeverMissing(found) == FALSE

\* if (!user) throw new Error('User not found'), the first test of startDiscovery
UserMissing(found) == ~found

\* startDiscovery from the answer of User.findById to its return, with the part
\* of executeDiscovery(job) that runs before its first await (status in_progress,
\* discoverUserAccounts up to its User.findById)
StartDiscoveryResume(u, found) ==
  /\ calls[u] > 0
  /\ calls' = [calls EXCEPT ![u] = calls[u] - 1]
  /\ LET r == [op |-> "startDiscovery", jobId |-> 0, result |-> "none"]
     IN
     IF UserMissing(found)
     THEN /\ ret' = [r EXCEPT !.result = "User not found"]
          /\ UNCHANGED <<activeJobs, jobHistory, jobs, nextJobId>>
          /\ UNCHANGED engVars
     ELSE IF AlreadyActive(u)
     THEN /\ ret' = [r EXCEPT !.result = "already in progress",
                              !.jobId = ActiveId(activeJobs, u)]
          /\ UNCHANGED <<activeJobs, jobHistory, jobs, nextJobId>>
          /\ UNCHANGED engVars
     ELSE IF AtCapacity
     THEN /\ ret' = [r EXCEPT !.result = "Maximum number of concurrent discovery jobs reached"]
          /\ UNCHANGED <<activeJobs, jobHistory, jobs, nextJobId>>
          /\ UNCHANGED engVars
     ELSE /\ nextJobId < MaxJobs
          /\ LET jobId == nextJobId + 1
             IN  /\ nextJobId' = jobId
                 /\ jobs' = [jobs EXCEPT ![jobId] =
                       [userId |-> u, status |-> "in_progress", cancelled |-> FALSE,
                        error |-> "none"]]
                 /\ activeJobs' = Append(activeJobs,
                       [userId |-> u, id |-> jobId, elapsed |-> 0])
                 /\ pc' = [pc EXCEPT ![jobId] = "lookup"]
                 /\ ret' = [r EXCEPT !.result = "started", !.jobId = jobId]
          /\ UNCHANGED <<jobHistory, config, chunkIdx, taskState, delays, detail>>

\* a search that also finds the jobs of the history
FoundAnywhere(jobId) == jobId \in ActiveIds(activeJobs) \/ HasHistory(jobHistory, jobId)

\* the search of cancelJob: for (const [userId, job] of this.activeJobs)
\* if (job.id === jobId)
FoundActive(jobId) == jobId \in ActiveIds(activeJobs)

\* cancelJob(jobId), for any job id a caller may pass
CancelJob(jobId) ==
  /\ IF FoundActive(jobId)
     THEN /\ jobs' = [jobs EXCEPT ![jobId].status = "cancelled",
                                  ![jobId].cancelled = TRUE]
          /\ jobHistory' = MoveJobToHistory(jobHistory, jobId, jobs'[jobId])
          /\ activeJobs' = SelectSeq(activeJobs, LAMBDA e : e.id # jobId)
          /\ ret' = [NoReturn EXCEPT !.op = "cancelJob", !.result = "true"]
     ELSE /\ ret' = [NoReturn EXCEPT !.op = "cancelJob", !.result = "false"]
          /\ UNCHANGED <<jobs, jobHistory, activeJobs>>
  /\ UNCHANGED <<nextJobId, calls>>
  /\ UNCHANGED engVars

\* the clock advances: elapsed = Date.now() - startedAt grows for every job of
\* the registry (kept up to jobTimeoutMs + 1, the code only compares it with
\* jobTimeoutMs)
Tick ==
  /\ \E i \in 1..Len(activeJobs) : activeJobs[i].elapsed <= jobTimeoutMs
  /\ activeJobs' = [i \in 1..Len(activeJobs) |->
        [activeJobs[i] EXCEPT !.elapsed = Min(activeJobs[i].elapsed + 1, jobTimeoutMs + 1)]]
  /\ ret' = NoReturn
  /\ UNCHANGED <<jobHistory, jobs, nextJobId, calls>>
  /\ UNCHANGED engVars

\* a staleness test that already fires at the limit
IsStaleAtLimit(e) == e.elapsed >= jobTimeoutMs

\* the staleness test of cleanupStaleJobs: elapsed > this.config.jobTimeoutMs
IsStale(e) == e.elapsed > jobTimeoutMs

\* the loop of cleanupStaleJobs over the entries of the registry, from entry i on;
\* st = [reg, hist, jobs] is the state the loop has built so far
RECURSIVE CleanupLoop(_, _, _)
CleanupLoop(entries, i, st) ==
  IF i > Len(entries) THEN st
  ELSE LET e == entries[i]
       IN  IF IsStale(e)
           THEN CleanupLoop(entries, i + 1,
                  [reg  |-> DeleteActive(st.reg, e.userId),
                   hist |-> MoveJobToHistory(st.hist, e.id,
                              [st.jobs[e.id] EXCEPT !.status = "timeout",
                                                    !.error = "Job timed out"]),
                   jobs |-> [st.jobs EXCEPT ![e.id].status = "timeout",
                                            ![e.id].error = "Job timed out"]])
           ELSE CleanupLoop(entries, i + 1, st)

\* a reaper tick: the setInterval callback of startAutoCleanup
CleanupStaleJobs ==
  /\ LET st == CleanupLoop(activeJobs, 1,
                 [reg |-> activeJobs, hist |-> jobHistory, jobs |-> jobs])
     IN  /\ activeJobs' = st.reg
         /\ jobHistory' = st.hist
         /\ jobs' = st.jobs
  /\ ret' = NoReturn
  /\ UNCHANGED <<nextJobId, calls>>
  /\ UNCHANGED engVars

\* discoverUserAccounts from the answer of its User.findById: a missing user
\* throws, which executeDiscovery catches (status failed); otherwise the
\* identifiers and platforms are prepared, n tasks are built and the first
\* chunk starts
DiscoverLookup(j, found, n) ==
  /\ j \in JobIds
  /\ pc[j] = "lookup"
  /\ IF found
     THEN ExecuteDiscoveryAcrossPlatforms(j, n)
     ELSE FailJob(j, "User not found")
  /\ ret' = NoReturn
  /\ UNCHANGED <<nextJobId, calls, config, detail>>

(***************************************************************************)
(* Spec: the job manager. The registry and the history see a discovery run *)
(* only where it ends (FinishJob), so the runs here are the ones that      *)
(* build no task (the platform selection is empty): the answer of the      *)
(* user lookup ends them, failed or completed.                             *)
(***************************************************************************)
Next ==
  \/ \E u \in Users : StartDiscoveryCall(u)
  \/ \E u \in Users, found \in BOOLEAN : StartDiscoveryResume(u, found)
  \/ \E j \in JobIds : CancelJob(j)
  \/ Tick
  \/ CleanupStaleJobs
  \/ \E j \in JobIds, found \in BOOLEAN : DiscoverLookup(j, found, 0)

Spec == Init /\ [][Next]_vars

(***************************************************************************)
(* RunSpec: the job manager with discovery runs that build JobTasks tasks, *)
(* one task per chunk.                                                     *)
(***************************************************************************)
RunNext ==
  \/ \E u \in Users : StartDiscoveryCall(u)
  \/ \E u \in Users, found \in BOOLEAN : StartDiscoveryResume(u, found)
  \/ \E j \in JobIds : CancelJob(j)
  \/ Tick
  \/ CleanupStaleJobs
  \/ \E j \in JobIds, found \in BOOLEAN : DiscoverLookup(j, found, JobTasks)
  \/ \E j \in JobIds, t \in 1..JobTasks : SettleTask(j, t)
  \/ \E j \in JobIds : DelayElapsed(j)

RunSpec == Init /\ [][RunNext]_vars

(***************************************************************************)
(* EngineSpec: executeDiscoveryAcrossPlatforms called directly, as         *)
(* quickDiscovery does, for every configured limit up to MaxLimit and      *)
(* every task count up to MaxTasks.                                        *)
(***************************************************************************)
\* quickDiscovery from the answer of its User.findById: one identifier (the
\* primary email) against n valid platforms gives n tasks
QuickDiscovery(n) ==
  /\ pc[0] \in {"idle", "done"}
  /\ ExecuteDiscoveryAcrossPlatforms(0, n)
  /\ ret' = NoReturn
  /\ UNCHANGED <<nextJobId, calls, config, detail>>

EngineInit ==
  /\ maxActiveJobs = 1
  /\ maxConcurrentDiscoveries \in 1..MaxLimit
  /\ maxRetryAttempts = 3
  /\ InitManager
  /\ InitRuns

EngineNext ==
  \/ \E n \in 1..MaxTasks : QuickDiscovery(n)
  \/ \E t \in 1..MaxTasks : SettleTask(0, t)
  \/ DelayElapsed(0)

EngineSpec == EngineInit /\ [][EngineNext]_vars

(***************************************************************************)
(* SerialSpec: the job manager with room for two jobs, as many requesters  *)
(* as the registry has room for, and callers that start one discovery at   *)
(* a time: a startDiscovery call is made when no other one is waiting for  *)
(* its user lookup.                                                        *)
(***************************************************************************)
\* new DiscoveryService({maxActiveJobs: 2, maxConcurrentDiscoveries: 1})
SerialInit ==
  /\ maxActiveJobs = 2
  /\ maxConcurrentDiscoveries = 1
  /\ maxRetryAttempts = 3
  /\ InitManager
  /\ InitRuns

SerialNext ==
  \/ \E u \in 1..maxActiveJobs : Pending(calls) = 0 /\ StartDiscoveryCall(u)
  \/ \E u \in 1..maxActiveJobs, found \in BOOLEAN : StartDiscoveryResume(u, found)
  \/ \E j \in JobIds : CancelJob(j)
  \/ Tick
  \/ CleanupStaleJobs
  \/ \E j \in JobIds, found \in BOOLEAN : DiscoverLookup(j, found, 0)

SerialSpec == SerialInit /\ [][SerialNext]_vars

(***************************************************************************)
(* LiveSpec: the job manager with room for one job and a requester that    *)
(* starts one discovery at a time, a clock that keeps advancing and a      *)
(* reaper that keeps firing (setInterval in startAutoCleanup). Nothing is  *)
(* assumed of the discovery runs: an await of a run may never return.      *)
(***************************************************************************)
LiveSpec ==
  Init /\ [][SerialNext]_vars /\ WF_vars(Tick) /\ WF_vars(CleanupStaleJobs)

(***************************************************************************)
(* Properties.                                                             *)
(***************************************************************************)
\* a startDiscovery call of requester u returns in this step, its user lookup
\* having found the user
StartReturns(u) == calls'[u] < calls[u] /\ ret'.result # "User not found"

\* the job ids a step moves to history: the status of a live job object changes
Moved(j) == jobs[j].status # "none" /\ jobs'[j].status # jobs[j].status

\* C1: a startDiscovery call for a requester that has a job in the active
\* registry when the registry is consulted returns the id of that job, creates
\* no job and leaves the registry unchanged, also when another startDiscovery
\* call of the same requester is in flight
C1_StartIsIdempotent ==
  [][\A u \in Users :
       (StartReturns(u) /\ HasActive(activeJobs, u))
         => /\ ret'.op = "startDiscovery"
            /\ ret'.result = "already in progress"
            /\ ret'.jobId = ActiveId(activeJobs, u)
            /\ UNCHANGED <<activeJobs, jobHistory, jobs, nextJobId, pc>>]_vars

\* a call returned the existing job while another call of the same requester
\* was still waiting for its user lookup
C1_Witness ==
  /\ ret.op = "startDiscovery"
  /\ ret.result = "already in progress"
  /\ \E u \in Users :
       /\ calls[u] > 0
       /\ HasActive(activeJobs, u)
       /\ ActiveId(activeJobs, u) = ret.jobId

\* C2: every requester has at most one job object with a non-terminal status
C2_OneNonTerminalJobPerRequester ==
  \A u \in Users :
     Cardinality({j \in JobIds : jobs[j].userId = u /\ jobs[j].status \in NonTerminal}) <= 1

\* C3: the registry never holds more than maxActiveJobs jobs, and a start for a
\* further requester when it holds maxActiveJobs fails with the capacity
\* error, starts no execution and changes neither the registry nor the history
C3_CapacityRejects ==
  /\ [](Len(activeJobs) <= maxActiveJobs)
  /\ [][\A u \in Users :
          (StartReturns(u) /\ ~HasActive(activeJobs, u) /\ Len(activeJobs) >= maxActiveJobs)
            => /\ ret'.result = "Maximum number of concurrent discovery jobs reached"
               /\ ret'.jobId = 0
               /\ UNCHANGED <<activeJobs, jobHistory, jobs, nextJobId, pc>>]_vars

\* the registry is full and the last start was refused
C3_Witness ==
  /\ ret.result = "Maximum number of concurrent discovery jobs reached"
  /\ Len(activeJobs) = maxActiveJobs

\* C4: a terminal status reported for a job id never changes while the id is
\* still reported
C4_TerminalStatusIsFinal ==
  [][\A j \in JobIds :
       (GetJobStatus(j) \in Terminal /\ GetJobStatus(j)' # "null")
         => GetJobStatus(j)' = GetJobStatus(j)]_vars

\* C5: a reaper tick times out every in_progress job of the registry whose
\* elapsed time exceeds jobTimeoutMs (status timeout, a copy in history, no
\* registry entry) and leaves every other job of the registry untouched
C5_ReaperTick ==
  [][CleanupStaleJobs =>
       \A i \in 1..Len(activeJobs) :
          LET e == activeJobs[i]
          IN  IF e.elapsed > jobTimeoutMs
              THEN jobs[e.id].status = "in_progress" =>
                     /\ jobs'[e.id].status = "timeout"
                     /\ HasHistory(jobHistory', e.id)
                     /\ HistoryStatus(jobHistory', e.id) = "timeout"
                     /\ e.id \notin ActiveIds(activeJobs')
              ELSE /\ \E k \in 1..Len(activeJobs') : activeJobs'[k] = e
                   /\ jobs'[e.id] = jobs[e.id]
                   /\ HasHistory(jobHistory', e.id) = HasHistory(jobHistory, e.id)]_vars

\* a job was timed out by the reaper while its run has not returned, and a
\* younger job, which has aged up to the limit, is still in the registry
C5_Witness ==
  \E j \in JobIds :
     /\ jobs[j].status = "timeout"
     /\ pc[j] # "done"
     /\ HasHistory(jobHistory, j)
     /\ HistoryStatus(jobHistory, j) = "timeout"
     /\ j \notin ActiveIds(activeJobs)
     /\ \E i \in 1..Len(activeJobs) :
           /\ activeJobs[i].id > j
           /\ activeJobs[i].elapsed = jobTimeoutMs
           /\ jobs[activeJobs[i].id].status = "in_progress"

\* C6: every job that is in the active registry eventually is not
C6_JobLeavesRegistry ==
  \A j \in JobIds : (j \in ActiveIds(activeJobs)) ~> (j \notin ActiveIds(activeJobs))

\* a job whose run hangs at its first await has left the registry by timeout,
\* and the slot is taken by a later job
C6_Witness ==
  \E j \in JobIds :
     /\ jobs[j].status = "timeout"
     /\ pc[j] = "lookup"
     /\ \E k \in ActiveIds(activeJobs) : k > j

\* C7: the history never holds more than its capacity
C7_HistoryBounded == Len(jobHistory) <= HistoryLimit

\* the history is full and a finished job is no longer in it
C7_Witness ==
  /\ Len(jobHistory) = HistoryLimit
  /\ \E j \in JobIds : pc[j] = "done" /\ ~HasHistory(jobHistory, j)

\* C8: a step that moves jobs to history leaves them in it, evicts entries only
\* as far as the capacity is exceeded (one per new entry over capacity) and
\* evicts the oldest ones: what stays is the newest part of the old history in
\* its old order, followed by the new entries; an id already in history is
\* written in place
C8_HistoryFifo ==
  [][LET old     == HistoryIds(jobHistory)
         new     == HistoryIds(jobHistory')
         added   == SelectSeq(new, LAMBDA id : ~HasHistory(jobHistory, id))
         evicted == Len(old) + Len(added) - Len(new)
         over    == Len(old) + Len(added) - HistoryLimit
     IN  /\ \A j \in JobIds : Moved(j) => HasHistory(jobHistory', j)
         /\ \A j \in JobIds : (~HasHistory(jobHistory, j) /\ HasHistory(jobHistory', j)) => Moved(j)
         /\ evicted = (IF over > 0 THEN over ELSE 0)
         /\ new = SubSeq(old, evicted + 1, Len(old)) \o added]_<<jobHistory, jobs>>

\* the history is full, an entry has been evicted, the entries are in the
\* order they entered, not in the order of the job ids, and the oldest one is
\* an entry that was written again (a cancelled job whose run ended later)
C8_Witness ==
  /\ Len(jobHistory) = HistoryLimit
  /\ \E j \in JobIds : pc[j] = "done" /\ ~HasHistory(jobHistory, j)
  /\ \E i \in 1..(Len(jobHistory) - 1) : jobHistory[i].id > jobHistory[i + 1].id
  /\ jobHistory[1].cancelled
  /\ jobHistory[1].status = "completed"

\* C9: once cancelJob has marked a job cancelled, its run starts no further
\* task
C9_NoChunkAfterCancel ==
  [][\A j \in JobIds :
       jobs[j].cancelled =>
         \A t \in (DOMAIN taskState[j]) \cap (DOMAIN taskState'[j]) :
            taskState[j][t] = "pending" => taskState'[j][t] = "pending"]_vars

\* the chunk of task t and the number of chunks of n tasks under limit k
ChunkOf(t, k) == ((t - 1) \div k) + 1

ChunkCount(n, k) == (n + k - 1) \div k

\* C10: a task of chunk c has started only when every task of the chunks
\* before c has settled and c - 1 delays have elapsed; a delay follows every
\* chunk but the last: while chunk c runs exactly c - 1 delays have elapsed,
\* the run sleeps only with every started chunk settled, and a finished run
\* has slept once less than it has chunks
C10_ChunksInOrder ==
  LET st == taskState[0]
      n  == Len(st)
      k  == maxConcurrentDiscoveries
  IN  /\ \A t \in 1..n :
            st[t] # "pending" =>
              /\ \A t2 \in 1..n : ChunkOf(t2, k) < ChunkOf(t, k) => st[t2] = "settled"
              /\ delays[0] >= ChunkOf(t, k) - 1
      /\ pc[0] = "chunk" => delays[0] = chunkIdx[0] - 1
      /\ pc[0] = "delay" =>
            /\ delays[0] = chunkIdx[0] - 1
            /\ chunkIdx[0] < ChunkCount(n, k)
            /\ \A t \in 1..n : ChunkOf(t, k) <= chunkIdx[0] => st[t] = "settled"
      /\ pc[0] = "done" =>
            /\ delays[0] = ChunkCount(n, k) - 1
            /\ \A t \in 1..n : st[t] = "settled"

\* the second chunk of a run is under way, after one delay, with one of its
\* tasks settled and another still running
C10_Witness ==
  /\ pc[0] = "chunk"
  /\ chunkIdx[0] = 2
  /\ delays[0] = 1
  /\ \E t1, t2 \in 1..Len(taskState[0]) :
        /\ ChunkOf(t1, maxConcurrentDiscoveries) = 2
        /\ ChunkOf(t2, maxConcurrentDiscoveries) = 2
        /\ taskState[0][t1] = "settled"
        /\ taskState[0][t2] = "running"

\* the tasks of run r that have started and have not settled
Running(r) == {t \in 1..Len(taskState[r]) : taskState[r][t] = "running"}

\* C11: at every point of a run the number of tasks that have started and have
\* not settled is at most maxConcurrentDiscoveries
C11_BoundedParallelism == Cardinality(Running(0)) <= maxConcurrentDiscoveries

\* a full chunk of more than one task is running while further tasks wait
C11_Witness ==
  /\ maxConcurrentDiscoveries > 1
  /\ Cardinality(Running(0)) = maxConcurrentDiscoveries
  /\ \E t \in 1..Len(taskState[0]) : taskState[0][t] = "pending"
  /\ \E t \in 1..Len(taskState[0]) : taskState[0][t] = "settled"

(***************************************************************************)
(* Aggregation of the task results: analyzeDiscoveryResults with           *)
(* calculateAccountConfidence and deduplicateAccounts.  A value that may   *)
(* be missing is the string "undefined" or "null" when it is; a            *)
(* confidence is a record, its value counting only when present.           *)
(***************************************************************************)
MaxResults == 3

AbsentConfidence == [present |-> FALSE, value |-> 0]
Confidence(n) == [present |-> TRUE, value |-> n]

\* result.confidence || 50: undefined and 0 are falsy
ConfidenceOrDefault(confidence) ==
  IF confidence.present /\ confidence.value # 0 THEN confidence.value ELSE 50

\* switch (identifier.source)
SourceBonus(source) ==
  CASE source = "primary_email" -> 20
    [] source = "alternative_email" -> 15
    [] source = "phone_number" -> 10
    [] source = "common_username" -> 5
    [] OTHER -> 0

\* switch (result.method)
MethodBonus(method) ==
  CASE method = "password_reset" -> 15
    [] method = "api_verification" -> 20
    [] method = "public_profile" -> 10
    [] method = "email_enumeration" -> 12
    [] OTHER -> 0

calculateAccountConfidence(result, identifier) ==
  Min(ConfidenceOrDefault(result.confidence) + SourceBonus(identifier.source)
        + MethodBonus(result.method), 100)

\* the account record built for a found result; of the six metadata fields,
\* all copied the same way, profileUrl and followers are kept, and isVerified
\* with its default
AccountOf(discovery) ==
  [ platform |-> discovery.platform,
    email |-> IF discovery.identifier.type = "email"
              THEN discovery.identifier.value ELSE "null",
    username |-> IF discovery.identifier.type = "username"
                 THEN discovery.identifier.value ELSE "null",
    detectionMethod |-> IF discovery.result.method = "undefined" THEN "unknown"
                        ELSE discovery.result.method,
    confidence |-> calculateAccountConfidence(discovery.result, discovery.identifier),
    metadata |-> [ profileUrl |-> discovery.result.profileUrl,
                   isVerified |-> discovery.result.isVerified = "true",
                   followers |-> discovery.result.followers ] ]

\* a test that takes every answer but exists: false as found
FoundUnlessFalse(discovery) == discovery.success /\ discovery.result.exists # "false"

\* result && result.exists, for the result of a successful task
Found(discovery) == discovery.success /\ discovery.result.exists = "true"

\* the accounts pushed by the loop over the results, in their order
RECURSIVE FoundAccounts(_)
FoundAccounts(discoveryResults) ==
  IF discoveryResults = <<>> THEN <<>>
  ELSE (IF Found(Head(discoveryResults))
        THEN <<AccountOf(Head(discoveryResults))>> ELSE <<>>)
         \o FoundAccounts(Tail(discoveryResults))

\* `${account.platform}:${account.email || account.username}`, as the pair of
\* its two parts (no platform key holds a colon)
AccountKey(account) ==
  <<account.platform,
    IF account.email # "null" THEN account.email ELSE account.username>>

\* the loop of deduplicateAccounts from the accounts left to look at and the
\* list built so far
RECURSIVE DeduplicateFrom(_, _)
DeduplicateFrom(accounts, deduplicated) ==
  IF accounts = <<>> THEN deduplicated
  ELSE LET account == Head(accounts)
           same == { i \in 1..Len(deduplicated) :
                       AccountKey(deduplicated[i]) = AccountKey(account) }
       IN  IF same = {}
           THEN DeduplicateFrom(Tail(accounts), Append(deduplicated, account))
           ELSE LET existingIndex == CHOOSE i \in same : \A k \in same : i <= k
                IN  IF account.confidence > deduplicated[existingIndex].confidence
                    THEN DeduplicateFrom(Tail(accounts),
                           [deduplicated EXCEPT ![existingIndex] = account])
                    ELSE DeduplicateFrom(Tail(accounts), deduplicated)

deduplicateNothing(accounts) == accounts

deduplicateAccounts(accounts) == DeduplicateFrom(accounts, <<>>)

\* a loop that skips a failed result without counting it
UncountedErrors(discoveryResults) ==
  LET of(platform) == { i \in 1..Len(discoveryResults) :
                          discoveryResults[i].platform = platform }
  IN  [ platform \in { discoveryResults[i].platform : i \in 1..Len(discoveryResults) } |->
          [ searched |-> Cardinality(of(platform)),
            found |-> Cardinality({ i \in of(platform) : Found(discoveryResults[i]) }),
            errors |-> 0 ] ]

\* platformStats: one entry for every platform that has a result
PlatformStats(discoveryResults) ==
  LET of(platform) == { i \in 1..Len(discoveryResults) :
                          discoveryResults[i].platform = platform }
  IN  [ platform \in { discoveryResults[i].platform : i \in 1..Len(discoveryResults) } |->
          [ searched |-> Cardinality(of(platform)),
            found |-> Cardinality({ i \in of(platform) : Found(discoveryResults[i]) }),
            errors |-> Cardinality({ i \in of(platform) : ~discoveryResults[i].success }) ] ]

\* `${identifier.type}:${identifier.source}`
IdentifierKey(identifier) == <<identifier.type, identifier.source>>

\* identifierStats: a failed result leaves the loop body before it is counted
IdentifierStats(discoveryResults) ==
  LET counted == { i \in 1..Len(discoveryResults) : discoveryResults[i].success }
      of(key) == { i \in counted : IdentifierKey(discoveryResults[i].identifier) = key }
  IN  [ key \in { IdentifierKey(discoveryResults[i].identifier) : i \in counted } |->
          [ searched |-> Cardinality(of(key)),
            found |-> Cardinality({ i \in of(key) : Found(discoveryResults[i]) }) ] ]

analyzeDiscoveryResults(discoveryResults) ==
  LET accounts == FoundAccounts(discoveryResults)
      deduplicatedAccounts == deduplicateAccounts(accounts)
  IN  [ accounts |-> deduplicatedAccounts,
        originalAccountCount |-> Len(accounts),
        deduplicatedAccountCount |-> Len(deduplicatedAccounts),
        platformStats |-> PlatformStats(discoveryResults),
        identifierStats |-> IdentifierStats(discoveryResults) ]

\* the aggregation has returned
Analyzed == value # <<>>

\* what an adapter may hand back as its confidence, as identifier sources and
\* as detection methods
ConfidenceValues ==
  {AbsentConfidence} \cup { Confidence(n) : n \in {-100, -1, 0, 1, 50, 70, 100, 101, 150} }
Sources == {"primary_email", "alternative_email", "phone_number", "common_username",
            "email_variation", "name_variation"}
Methods == {"password_reset", "api_verification", "public_profile",
            "email_enumeration", "phone_lookup", "undefined"}

TypeOf(source) ==
  CASE source \in {"primary_email", "alternative_email"} -> "email"
    [] source = "phone_number" -> "phone"
    [] OTHER -> "username"

ValueOf(source) ==
  CASE source \in {"primary_email", "alternative_email"} -> "ann@mail"
    [] source = "phone_number" -> "5550100"
    [] OTHER -> "ann"

\* a found result of an adapter
FoundResult(confidence, method, profileUrl, followers) ==
  [ exists |-> "true", confidence |-> confidence, method |-> method,
    profileUrl |-> profileUrl, isVerified |-> "undefined", followers |-> followers ]

\* what executeDiscoveryTask returns
Success(platform, identifier, result) ==
  [ platform |-> platform, identifier |-> identifier, result |-> result, success |-> TRUE ]
\* result: null of a failed task: nothing in it is defined
NullResult ==
  [ exists |-> "undefined", confidence |-> AbsentConfidence, method |-> "undefined",
    profileUrl |-> "undefined", isVerified |-> "undefined", followers |-> "undefined" ]
Failure(platform, identifier) ==
  [ platform |-> platform, identifier |-> identifier, result |-> NullResult,
    success |-> FALSE ]

(***************************************************************************)
(* The tasks of one executeDiscoveryAcrossPlatforms call (run 0), each     *)
(* with the retry loop of its probe.                                       *)
(***************************************************************************)
MaxIdentifiers == 3
MaxRetries == 3

\* config.discoveryTimeout and the baseDelay handed to retry, in milliseconds
discoveryTimeout == 30000
baseDelay == 1000

\* identifiers as prepareDiscoveryIdentifiers builds them
IdentifierPool ==
  { [type |-> "email", value |-> "ann@mail", source |-> "primary_email"],
    [type |-> "phone", value |-> "5550100", source |-> "phone_number"],
    [type |-> "username", value |-> "ann", source |-> "common_username"] }

\* platform configurations: one with an adapter in the registry and on the
\* phone list, one with neither
PlatformPool == { [key |-> "twitter"], [key |-> "linkedin"] }
RegisteredAdapters == {"twitter", "facebook"}
PhonePlatforms == {"twitter", "facebook", "whatsapp", "telegram"}

\* the lists of at most n distinct elements of S, none empty
DistinctSeqs(S, n) ==
  { s \in UNION { [1..k -> S] : k \in 1..n } :
      \A i, j \in DOMAIN s : i # j => s[i] # s[j] }

platformSupportsIdentifierType(platform, identifierType) ==
  IF identifierType = "phone" THEN platform.key \in PhonePlatforms ELSE TRUE

\* the inner loop of the task construction: the tasks of one platform
RECURSIVE PlatformTasks(_, _)
PlatformTasks(platform, identifiers) ==
  IF identifiers = <<>> THEN <<>>
  ELSE LET identifier == Head(identifiers)
           rest == PlatformTasks(platform, Tail(identifiers))
       IN  IF ~platformSupportsIdentifierType(platform, identifier.type)
           THEN rest
           ELSE <<[platform |-> platform.key, identifier |-> identifier]>> \o rest

\* the outer loop: platform by platform, identifier by identifier
RECURSIVE BuildTasks(_, _)
BuildTasks(platforms, identifiers) ==
  IF platforms = <<>> THEN <<>>
  ELSE PlatformTasks(Head(platforms), identifiers)
         \o BuildTasks(Tail(platforms), identifiers)

\* the retry loop of a task that has not started, and of one that has returned
\* (its locals are gone, the outcome is in the results)
Waiting == [phase |-> "waiting", attempt |-> 0, calls |-> 0, timeouts |-> 0,
            waits |-> <<>>, time |-> 0, outcome |-> "none"]
Returned(outcome) == [Waiting EXCEPT !.phase = "returned", !.outcome = outcome]

\* executeDiscoveryTask up to its first await: getAdapter throws for a platform
\* without adapter, else retry makes the first call of the probe
Started(task) ==
  IF task.platform \in RegisteredAdapters
  THEN [Waiting EXCEPT !.phase = "probing", !.calls = 1]
  ELSE [Waiting EXCEPT !.phase = "noadapter"]

\* the tasks that a step of the loop has started are in their first attempt
StartProbes(pr, before, after, all) ==
  [t \in 1..Len(all) |->
     IF before[t] = "pending" /\ after[t] = "running" THEN Started(all[t])
     ELSE pr[t]]

\* executeDiscoveryAcrossPlatforms(identifiers, platforms, options) up to its
\* first await: the tasks are built, cut into chunks, the first chunk started
DiscoverAcrossPlatforms ==
  /\ pc[0] = "idle"
  /\ tasks' = BuildTasks(args.platforms, args.identifiers)
  /\ ExecuteDiscoveryAcrossPlatforms(0, Len(tasks'))
  /\ probe' = StartProbes([t \in 1..Len(tasks') |-> Waiting],
                          [t \in 1..Len(tasks') |-> "pending"],
                          taskState'[0], tasks')
  /\ ret' = NoReturn
  /\ UNCHANGED <<nextJobId, calls, config, args, chunking, value, db>>

\* executeDiscoveryTask of task t returns with the outcome; the loop goes on
\* when it was the last one of the chunk
TaskReturns(t, outcome) ==
  /\ TaskSettles(0, t)
  /\ probe' = StartProbes([probe EXCEPT ![t] = Returned(outcome)],
                          taskState[0], taskState'[0], tasks)
  /\ ret' = NoReturn
  /\ UNCHANGED <<nextJobId, calls, config, args, chunking, value, tasks, db>>

\* the wait of retry after the failed attempt number attempt (from 0)
RetryDelayConstant(attempt) == baseDelay

RetryDelay(attempt) == baseDelay * 2^attempt

\* retry gives up when the failed attempt was number maxRetries
LastAttemptNever(attempt) == FALSE

LastAttempt(attempt) == attempt = maxRetryAttempts

\* the race of one attempt is decided: the adapter resolved ("found",
\* "notfound"), rejected, or the timeout fired first
AttemptSettles(t, how) ==
  /\ pc[0] = "chunk"
  /\ t \in 1..Len(probe)
  /\ probe[t].phase = "probing"
  /\ LET p == probe[t]
         spent == IF how = "timeout" THEN discoveryTimeout ELSE 0
     IN  IF how \in {"found", "notfound"} THEN TaskReturns(t, how)
         ELSE IF LastAttempt(p.attempt) THEN TaskReturns(t, "failed")
         ELSE /\ probe' = [probe EXCEPT ![t] =
                             [p EXCEPT !.phase = "backoff",
                                       !.timeouts = @ + (IF how = "timeout" THEN 1 ELSE 0),
                                       !.waits = Append(@, RetryDelay(p.attempt)),
                                       !.time = @ + spent]]
              /\ ret' = NoReturn
              /\ UNCHANGED <<activeJobs, jobHistory, jobs, nextJobId, calls, config,
                             pc, chunkIdx, taskState, delays, args, chunking, value, tasks, db>>

\* sleep(delay) of retry resolves: the next attempt calls the probe again
BackoffElapsed(t) ==
  /\ pc[0] = "chunk"
  /\ t \in 1..Len(probe)
  /\ probe[t].phase = "backoff"
  /\ probe' = [probe EXCEPT ![t] =
                 [@ EXCEPT !.phase = "probing", !.attempt = @ + 1, !.calls = @ + 1,
                           !.time = @ + probe[t].waits[Len(probe[t].waits)]]]
  /\ ret' = NoReturn
  /\ UNCHANGED <<activeJobs, jobHistory, jobs, nextJobId, calls, config,
                 pc, chunkIdx, taskState, delays, args, chunking, value, tasks, db>>

\* the catch block of a task whose platform has no adapter
AdapterNotFound(t) ==
  /\ t \in 1..Len(probe)
  /\ probe[t].phase = "noadapter"
  /\ TaskReturns(t, "failed")

\* sleep(delayBetweenRequests) resolves: the next chunk starts
ChunkDelayElapsed ==
  /\ pc[0] = "delay"
  /\ NextChunk(0, TaskChunks(0), taskState[0], delays[0] + 1)
  /\ probe' = StartProbes(probe, taskState[0], taskState'[0], tasks)
  /\ ret' = NoReturn
  /\ UNCHANGED <<nextJobId, calls, config, args, chunking, value, tasks, db>>

\* what the adapter of the model resolves with
SampleFound == FoundResult(Confidence(70), "password_reset", "url", "undefined")
SampleNotFound == [NullResult EXCEPT !.exists = "false"]

\* the entry of the results array for a task that returned with the outcome
ResultOf(task, outcome) ==
  CASE outcome = "found" -> Success(task.platform, task.identifier, SampleFound)
    [] outcome = "notfound" -> Success(task.platform, task.identifier, SampleNotFound)
    [] OTHER -> Failure(task.platform, task.identifier)

\* the results array returned by executeDiscoveryAcrossPlatforms
Results == [t \in 1..Len(tasks) |-> ResultOf(tasks[t], probe[t].outcome)]

\* the caller hands the results returned to analyzeDiscoveryResults
AnalyzeResults ==
  /\ pc[0] = "done"
  /\ value = <<>>
  /\ value' = analyzeDiscoveryResults(Results)
  /\ ret' = NoReturn
  /\ UNCHANGED <<activeJobs, jobHistory, jobs, nextJobId, calls, config,
                 pc, chunkIdx, taskState, delays, args, chunking, tasks, probe, db>>

TaskInit ==
  /\ InitDb
  /\ maxActiveJobs = 1
  /\ maxConcurrentDiscoveries = 2
  /\ maxRetryAttempts \in 0..MaxRetries
  /\ InitManager
  /\ pc = [r \in Runs |-> "idle"]
  /\ chunkIdx = [r \in Runs |-> 0]
  /\ taskState = [r \in Runs |-> <<>>]
  /\ delays = [r \in Runs |-> 0]
  /\ args \in [identifiers : DistinctSeqs(IdentifierPool, MaxIdentifiers),
               platforms : DistinctSeqs(PlatformPool, 2)]
  /\ value = <<>>
  /\ chunking = NotChunking
  /\ tasks = <<>>
  /\ probe = <<>>

TaskNext ==
  \/ DiscoverAcrossPlatforms
  \/ \E t \in 1..MaxTasks : \E how \in {"found", "notfound", "rejected", "timeout"} :
       AttemptSettles(t, how)
  \/ \E t \in 1..MaxTasks : BackoffElapsed(t)
  \/ \E t \in 1..MaxTasks : AdapterNotFound(t)
  \/ ChunkDelayElapsed
  \/ AnalyzeResults

TaskSpec == TaskInit /\ [][TaskNext]_vars

\* the tasks of run 0 have been built
Built == pc[0] # "idle"

\* the tasks of run 0 that returned with the outcome
WithOutcome(outcome) == { t \in DOMAIN probe : probe[t].outcome = outcome }

\* C12: a failed task stops neither the other tasks of its chunk nor the later
\* chunks: the call returns only when every task has its own outcome; in the
\* aggregation of the results the accounts are those of the found tasks, a
\* failed task has none, and the errors counter of a platform is the number of
\* its failed tasks
C12_TaskFailureIsIsolated ==
  /\ pc[0] = "done" => \A t \in DOMAIN probe : probe[t].phase = "returned"
  /\ Analyzed =>
       /\ value.originalAccountCount = Cardinality(WithOutcome("found"))
       /\ \A i \in 1..Len(value.accounts) :
            \E t \in WithOutcome("found") :
              value.accounts[i] = AccountOf(Results[t])
       /\ \A t \in DOMAIN tasks :
            value.platformStats[tasks[t].platform].errors
              = Cardinality({ u \in WithOutcome("failed") :
                                tasks[u].platform = tasks[t].platform })

\* the results are aggregated of a call in which a task of the first chunk
\* failed, the other task of that chunk and a task of a later chunk were found
C12_Witness ==
  /\ Analyzed
  /\ \E t, u, w \in DOMAIN probe :
       /\ probe[t].outcome = "failed"
       /\ probe[u].outcome = "found"
       /\ probe[w].outcome = "found"
       /\ t # u
       /\ ChunkOf(t, maxConcurrentDiscoveries) = ChunkOf(u, maxConcurrentDiscoveries)
       /\ ChunkOf(w, maxConcurrentDiscoveries) > ChunkOf(t, maxConcurrentDiscoveries)

\* the retry loop of task t is running
Alive(t) == probe[t].phase \in {"probing", "backoff"}

\* every attempt that task t has finished ran into the timeout: its probe
\* does not resolve
Hung(t) == probe[t].timeouts >= 1 /\ probe[t].timeouts = Len(probe[t].waits)

\* C13: a task whose probe never resolves is recorded as failed within
\* discoveryTimeout of its start, after one timeout expiry: it is not still
\* unsettled later than that
C13_HungTaskFailsAfterOneTimeout ==
  \A t \in DOMAIN probe : Alive(t) /\ Hung(t) => probe[t].time <= discoveryTimeout

\* the retry loop of task t before a step, a task not built yet counting as waiting
Before(t) == IF t \in DOMAIN probe THEN probe[t] ELSE Waiting

\* C14: the probe of one task is called at most maxRetryAttempts + 1 times; a
\* further call is made only after a failed attempt while retries remain, none
\* after the task has its outcome; the wait after the failed attempt number i
\* is baseDelay * 2^i, strictly longer than the one before
C14_BoundedRetryWithBackoff ==
  /\ [](\A t \in DOMAIN probe :
          /\ probe[t].calls <= maxRetryAttempts + 1
          /\ Len(probe[t].waits) <= maxRetryAttempts
          /\ \A i \in DOMAIN probe[t].waits :
               /\ probe[t].waits[i] = baseDelay * 2^(i - 1)
               /\ i > 1 => probe[t].waits[i] > probe[t].waits[i - 1])
  /\ [][\A t \in DOMAIN probe' :
          /\ probe'[t].calls > Before(t).calls =>
               /\ probe'[t].calls = Before(t).calls + 1
               /\ \/ Before(t).phase = "waiting"
                  \/ /\ Before(t).phase = "backoff"
                     /\ Before(t).attempt < maxRetryAttempts
          /\ Before(t).outcome # "none" => probe'[t] = Before(t)]_vars

\* a task is in its last attempt after two waits
C14_Witness ==
  \E t \in DOMAIN probe :
    /\ probe[t].phase = "probing"
    /\ probe[t].calls = maxRetryAttempts + 1
    /\ Len(probe[t].waits) >= 2

\* the identifier types that the platforms of the worked example of the task
\* construction support: linkedin only email, the other every type
ExampleTypes(key) ==
  IF key = "linkedin" THEN {"email"} ELSE {"email", "phone", "username"}

\* C15: the tasks built are exactly the pairs (platform, identifier) of the
\* arguments whose platform supports the type of the identifier, each pair once
C15_TasksAreSupportedPairs ==
  Built =>
    LET supported == { ij \in (DOMAIN args.platforms) \X (DOMAIN args.identifiers) :
                         args.identifiers[ij[2]].type
                           \in ExampleTypes(args.platforms[ij[1]].key) }
        pairs == { [platform |-> args.platforms[ij[1]].key,
                    identifier |-> args.identifiers[ij[2]]] : ij \in supported }
    IN  /\ SeqToSet(tasks) = pairs
        /\ Len(tasks) = Cardinality(pairs)

\* one found result for every confidence, source and method
SingleResults ==
  { << Success("twitter",
               [type |-> TypeOf(source), value |-> ValueOf(source), source |-> source],
               FoundResult(confidence, method, "undefined", "undefined")) >> :
      <<confidence, source, method>> \in ConfidenceValues \X Sources \X Methods }

\* results of two platforms for a primary email and two alternative emails of
\* one requester, one of them the primary address again: found by a probe of
\* confidence 60 that gives the profile URL, found by one of confidence 55 that
\* gives the followers, or failed; and for the primary email on twitter a probe
\* that answered exists: false and one that could not tell (exists: null);
\* and two phone numbers found on twitter
SampleIdentifiers ==
  { [type |-> "email", value |-> "ann@mail", source |-> "primary_email"],
    [type |-> "email", value |-> "ann@work", source |-> "alternative_email"],
    [type |-> "email", value |-> "ann@mail", source |-> "alternative_email"] }

SampleResults ==
  UNION { { Success(platform, identifier,
                    FoundResult(Confidence(60), "password_reset", "url", "undefined")),
            Success(platform, identifier,
                    FoundResult(Confidence(55), "password_reset", "undefined", "many")),
            Failure(platform, identifier) } :
          <<platform, identifier>> \in {"twitter", "facebook"} \X SampleIdentifiers }
  \cup { Success("twitter",
                 [type |-> "email", value |-> "ann@mail", source |-> "primary_email"],
                 [FoundResult(Confidence(60), "password_reset", "url", "undefined")
                    EXCEPT !.exists = exists]) : exists \in {"false", "null"} }
  \cup { Success("twitter",
                 [type |-> "phone", value |-> phone, source |-> "phone_number"],
                 FoundResult(Confidence(60), "password_reset", "url", "undefined")) :
           phone \in {"5550100", "5550101"} }

ResultLists == UNION { [1..n -> SampleResults] : n \in 0..MaxResults }

\* analyzeDiscoveryResults(discoveryResults, identifiers) called with the results
Analyze ==
  /\ value = <<>>
  /\ value' = analyzeDiscoveryResults(args)
  /\ ret' = NoReturn
  /\ UNCHANGED <<activeJobs, jobHistory, jobs, nextJobId, calls, config,
                 pc, chunkIdx, taskState, delays, args, chunking, tasks, probe, db>>

AnalysisInit ==
  /\ InitDb
  /\ maxActiveJobs = 1
  /\ maxConcurrentDiscoveries = 1
  /\ maxRetryAttempts = 3
  /\ InitManager
  /\ pc = [r \in Runs |-> "idle"]
  /\ chunkIdx = [r \in Runs |-> 0]
  /\ taskState = [r \in Runs |-> <<>>]
  /\ delays = [r \in Runs |-> 0]
  /\ args \in SingleResults \cup ResultLists
  /\ value = <<>>
  /\ chunking = NotChunking
  /\ tasks = <<>>
  /\ probe = <<>>

AnalysisNext == Analyze

AnalysisSpec == AnalysisInit /\ [][AnalysisNext]_vars

\* the found results among the arguments
FoundResults == { i \in 1..Len(args) : Found(args[i]) }

\* C16: every account of the aggregation has a confidence from 0 to 100
C16_ConfidenceInRange ==
  Analyzed =>
    \A i \in 1..Len(value.accounts) :
      value.accounts[i].confidence >= 0 /\ value.accounts[i].confidence <= 100

\* C17: the confidence of the account of a found result is
\* min(100, c + s + m) with c the confidence of the probe, 50 when it gave
\* none, s the bonus of the identifier source and m that of the method
C17_ConfidenceFormula ==
  Analyzed /\ Len(args) = 1 /\ FoundResults = {1} =>
    LET result == args[1].result
        c == IF result.confidence.present THEN result.confidence.value ELSE 50
    IN  /\ Len(value.accounts) = 1
        /\ value.accounts[1].confidence
             = Min(100, c + SourceBonus(args[1].identifier.source)
                          + MethodBonus(result.method))

\* the found results that have the key of the account
SameAccount(account) ==
  { i \in FoundResults : AccountKey(AccountOf(args[i])) = AccountKey(account) }

\* C18: no two accounts of one aggregation have the same platform and the same
\* identifier (the email, else the username), and every pair that was found
\* has its account
C18_OneAccountPerPair ==
  Analyzed =>
    /\ \A i, j \in 1..Len(value.accounts) :
         i # j => AccountKey(value.accounts[i]) # AccountKey(value.accounts[j])
    /\ { AccountKey(value.accounts[i]) : i \in 1..Len(value.accounts) }
         = { AccountKey(AccountOf(args[i])) : i \in FoundResults }

\* results of the same pair were merged and two accounts are left
C18_Witness ==
  /\ Analyzed
  /\ value.deduplicatedAccountCount < value.originalAccountCount
  /\ value.deduplicatedAccountCount >= 2

\* a metadata field has a value
Defined(v) == v # "undefined"

\* C19: the account kept for a pair has the highest confidence of the found
\* results of the pair, and every metadata field that one of them defines is
\* defined in it
C19_HighestConfidenceAndMetadataUnion ==
  Analyzed =>
    \A k \in 1..Len(value.accounts) :
      LET account == value.accounts[k]
      IN  \A i \in SameAccount(account) :
            /\ account.confidence >= AccountOf(args[i]).confidence
            /\ Defined(args[i].result.profileUrl) =>
                 account.metadata.profileUrl = args[i].result.profileUrl
            /\ Defined(args[i].result.followers) =>
                 account.metadata.followers = args[i].result.followers

\* C20: a primary email and an alternative email found on the same platform
\* leave exactly one account of that platform, that of the probe with the
\* higher confidence
C20_OneAccountForTwoEmails ==
  /\ Analyzed
  /\ Len(args) = 2
  /\ FoundResults = {1, 2}
  /\ args[1].platform = args[2].platform
  /\ {args[1].identifier.source, args[2].identifier.source}
       = {"primary_email", "alternative_email"}
  => /\ Len(value.accounts) = 1
     /\ \E i \in {1, 2} :
          /\ value.accounts[1] = AccountOf(args[i])
          /\ \A j \in {1, 2} :
               args[i].result.confidence.value >= args[j].result.confidence.value

(***************************************************************************)
(* Persistence: saveDiscoveredAccounts against the Account collection.     *)
(* One iteration of its loop (Account.findOne, then save) is one step; the *)
(* documents are those of the requester of the call.                       *)
(***************************************************************************)
MaxAccounts == 3

\* the values the Account schema allows for detectionMethod
MethodEnum == {"password_reset", "api_enumeration", "social_graph", "breach_data",
               "manual", "email_scan"}

\* the validation that save() runs: the enum of detectionMethod, min and max
\* of confidence
Valid(doc) ==
  /\ doc.detectionMethod \in MethodEnum
  /\ doc.confidence >= 0
  /\ doc.confidence <= 100

\* the filter of Account.findOne: the platform and $or of email and username;
\* a null in the filter matches a null in the document
Matches(doc, accountData) ==
  /\ doc.platform = accountData.platform
  /\ \/ doc.email = accountData.email
     \/ doc.username = accountData.username

\* the positions of the documents that Account.findOne may return
Matching(accountData) == { k \in 1..Len(store) : Matches(store[k], accountData) }

\* a confidence update that takes the new value
TakeNew(old, new) == new

\* Math.max(existing.confidence || 0, accountData.confidence)
KeepMax(old, new) == IF old > new THEN old ELSE new

\* { ...existing.metadata, ...accountData.metadata }
MergeMetadata(old, new) ==
  [ f \in DOMAIN old \cup DOMAIN new |-> IF f \in DOMAIN new THEN new[f] ELSE old[f] ]

\* Object.assign(existing, {confidence, lastVerified, detectionMethod, metadata})
Updated(existing, accountData) ==
  [ existing EXCEPT !.confidence = KeepMax(@, accountData.confidence),
                    !.detectionMethod = accountData.detectionMethod,
                    !.metadata = MergeMetadata(@, accountData.metadata) ]

\* the time of the latest write to the collection (timestamps: a save stamps
\* updatedAt), counted in writes
LastWrite ==
  LET times == { store[k].updatedAt : k \in 1..Len(store) } \cup {0}
  IN  CHOOSE t \in times : \A other \in times : other <= t

\* save() of a document: the fields written, and updatedAt
Stamped(fields) ==
  [ f \in DOMAIN fields \cup {"updatedAt"} |->
      IF f = "updatedAt" THEN LastWrite + 1 ELSE fields[f] ]

\* an error in the try block that leaves the loop
LeaveLoop(loop) == Len(loop.accounts) + 1

\* the catch block logs the error; the for loop goes on with the next account
NextAccount(loop) == loop.next + 1

\* the loop of saveDiscoveredAccounts is at an account
Saving == saveLoop.pass > 0 /\ saveLoop.next <= Len(saveLoop.accounts)

\* the loop has ended: saveDiscoveredAccounts returns savedAccounts
SaveReturned == saveLoop.pass > 0 /\ saveLoop.next > Len(saveLoop.accounts)

\* one iteration of the loop, for the account at saveLoop.next: findOne returns
\* the document at position k (0: none), which is updated, or a new document
\* is made; save() fails when the document is not valid or the database
\* refuses (dbOk false), the catch block logs it and the loop goes on
SaveIteration(k, dbOk) ==
  /\ Saving
  /\ LET accountData == saveLoop.accounts[saveLoop.next]
         found == Matching(accountData)
         doc == Stamped(IF k = 0 THEN accountData ELSE Updated(store[k], accountData))
         saved == dbOk /\ Valid(doc)
         position == IF k = 0 THEN Len(store) + 1 ELSE k
     IN  /\ IF found = {} THEN k = 0 ELSE k \in found
         /\ store' = IF ~saved THEN store
                     ELSE IF k = 0 THEN Append(store, doc)
                     ELSE [store EXCEPT ![k] = doc]
         /\ saveLoop' = [saveLoop EXCEPT
                           !.next = IF saved THEN @ + 1 ELSE NextAccount(saveLoop),
                           !.attempted = @ \cup {saveLoop.next},
                           !.savedAccounts =
                             IF saved
                             THEN Append(@, [account |-> saveLoop.next, doc |-> position])
                             ELSE @]

\* the accounts of the argument that the call has saved
SavedNow == { saveLoop.savedAccounts[n].account : n \in 1..Len(saveLoop.savedAccounts) }

\* saveDiscoveredAccounts(userId, accounts) is called
BeginSave(accounts) ==
  saveLoop' = [pass |-> saveLoop.pass + 1, accounts |-> accounts, next |-> 1,
               savedAccounts |-> <<>>, attempted |-> {}, earlier |-> SavedNow]

\* the accounts that deduplicateAccounts hands over
AccountPool ==
  { AccountOf(Success(platform,
                      [type |-> TypeOf(source), value |-> address, source |-> source],
                      FoundResult(Confidence(50), method, "url", "undefined"))) :
      <<platform, source, address, method>> \in
        { <<"twitter", "primary_email", "ann@mail", "password_reset">>,
          <<"twitter", "alternative_email", "ann@work", "password_reset">>,
          <<"twitter", "common_username", "ann", "password_reset">>,
          <<"twitter", "phone_number", "5550100", "password_reset">>,
          <<"facebook", "primary_email", "ann@mail", "password_reset">>,
          <<"facebook", "alternative_email", "ann@work", "public_profile">> } }

(***************************************************************************)
(* SaveSpec: saveDiscoveredAccounts called with a list of accounts, and    *)
(* called again with the same list after it has ended or has been cut      *)
(* short at any account (the process died and the job is delivered again). *)
(***************************************************************************)
SaveAccount ==
  /\ \E k \in 0..MaxAccounts, dbOk \in BOOLEAN : SaveIteration(k, dbOk)
  /\ ret' = NoReturn
  /\ UNCHANGED <<activeJobs, jobHistory, jobs, nextJobId, calls, config,
                 pc, chunkIdx, taskState, delays, args, chunking, value, tasks, probe>>

SaveDiscoveredAccounts ==
  /\ saveLoop.pass = 0
  /\ BeginSave(args)
  /\ ret' = NoReturn
  /\ UNCHANGED <<activeJobs, jobHistory, jobs, nextJobId, calls, config,
                 pc, chunkIdx, taskState, delays, args, chunking, value, tasks, probe, store>>

Redeliver ==
  /\ saveLoop.pass = 1
  /\ BeginSave(args)
  /\ ret' = NoReturn
  /\ UNCHANGED <<activeJobs, jobHistory, jobs, nextJobId, calls, config,
                 pc, chunkIdx, taskState, delays, args, chunking, value, tasks, probe, store>>

SaveInit ==
  /\ maxActiveJobs = 1
  /\ maxConcurrentDiscoveries = 1
  /\ maxRetryAttempts = 3
  /\ InitManager
  /\ InitDb
  /\ pc = [r \in Runs |-> "idle"]
  /\ chunkIdx = [r \in Runs |-> 0]
  /\ taskState = [r \in Runs |-> <<>>]
  /\ delays = [r \in Runs |-> 0]
  /\ args \in DistinctSeqs(AccountPool, MaxAccounts)
  /\ value = <<>>
  /\ chunking = NotChunking
  /\ tasks = <<>>
  /\ probe = <<>>

SaveNext ==
  \/ SaveDiscoveredAccounts
  \/ SaveAccount
  \/ Redeliver

SaveSpec == SaveInit /\ [][SaveNext]_vars

\* C21: when the same accounts are persisted again, an account that the first
\* delivery saved makes no further document; no document is ever removed, every
\* document keeps its platform, email and username, and its confidence does
\* not decrease: an update keeps the maximum of the stored and the new value
C21_SaveIsIdempotentUpsert ==
  [][ /\ Len(store') >= Len(store)
      /\ \A k \in 1..Len(store) :
           /\ store'[k].platform = store[k].platform
           /\ store'[k].email = store[k].email
           /\ store'[k].username = store[k].username
           /\ store'[k].confidence >= store[k].confidence
           /\ store'[k] # store[k] =>
                store'[k].confidence
                  = (LET a == store[k].confidence
                         b == saveLoop.accounts[saveLoop.next].confidence
                     IN  IF a >= b THEN a ELSE b)
      /\ saveLoop.pass = 2 /\ Saving /\ saveLoop.next \in saveLoop.earlier =>
           Len(store') = Len(store) ]_vars

\* the second delivery has ended, having saved every account the first one
\* saved, one of them into the document of another account with a higher
\* confidence
C21_Witness ==
  /\ saveLoop.pass = 2
  /\ SaveReturned
  /\ Len(saveLoop.accounts) >= 2
  /\ saveLoop.earlier = 1..Len(saveLoop.accounts)
  /\ SavedNow = saveLoop.earlier
  /\ Len(store) < Len(saveLoop.accounts)
  /\ \E n \in 1..Len(saveLoop.savedAccounts) :
       store[saveLoop.savedAccounts[n].doc].confidence
         > saveLoop.accounts[saveLoop.savedAccounts[n].account].confidence


(***************************************************************************)
(* Failures of a job-level step, and calls the service rejects.            *)
(***************************************************************************)
\* the error of the history entry of a job, as getJobStatus reports it
HistoryError(hist, id) == hist[CHOOSE i \in 1..Len(hist) : hist[i].id = id].error

\* C22: when the user lookup of discoverUserAccounts finds no user, the job of
\* that run is in the history with status failed and the message of the error,
\* and is not in the active registry
C22_JobLevelFailureFailsJob ==
  [][ \A j \in JobIds :
        DiscoverLookup(j, FALSE, 0) =>
          /\ HasHistory(jobHistory', j)
          /\ HistoryStatus(jobHistory', j) = "failed"
          /\ HistoryError(jobHistory', j) = "User not found"
          /\ j \notin ActiveIds(activeJobs') ]_vars

\* a job has failed at its user lookup while a later job is still active
C22_Witness ==
  \E j \in JobIds :
     /\ pc[j] = "done"
     /\ HasHistory(jobHistory, j)
     /\ HistoryStatus(jobHistory, j) = "failed"
     /\ HistoryError(jobHistory, j) = "User not found"
     /\ \E k \in ActiveIds(activeJobs) : k > j


\* C23: a startDiscovery call whose requester does not exist throws 'User not
\* found' and allocates no job id, starts no execution and leaves the active
\* registry, the history and the job objects as they were
C23_MissingRequesterIsRejected ==
  [][ \A u \in Users :
        StartDiscoveryResume(u, FALSE) =>
          /\ ret'.result = "User not found"
          /\ ret'.jobId = 0
          /\ nextJobId' = nextJobId
          /\ UNCHANGED <<activeJobs, jobHistory, jobs, pc, taskState>> ]_vars

\* such a call has been rejected while the registry had a free slot and an
\* earlier job of the service was in the history
C23_Witness ==
  /\ ret.op = "startDiscovery"
  /\ ret.result = "User not found"
  /\ Len(activeJobs) < maxActiveJobs
  /\ Len(jobHistory) > 0


(***************************************************************************)
(* JobSpec: one job of the service with every step of its execution:       *)
(* startDiscovery, the user lookup of discoverUserAccounts, the tasks of    *)
(* executeDiscoveryAcrossPlatforms (run 0 is the call the job makes), the   *)
(* aggregation, the save loop, the update of the discovery timestamp and    *)
(* the end of executeDiscovery, with cancelJob and the reaper at any time.  *)
(***************************************************************************)
\* the first job of the service
TheJob == 1

\* discoverUserAccounts of the job is between its first await and its end
Discovering == pc[TheJob] = "lookup"

\* startDiscovery of the one requester, once
StartJob ==
  \/ /\ nextJobId = 0
     /\ calls[1] = 0
     /\ StartDiscoveryCall(1)
  \/ \E found \in BOOLEAN : StartDiscoveryResume(1, found)

\* the answer of User.findById in discoverUserAccounts: a missing user throws,
\* else the identifiers and platforms are prepared and the tasks start
JobLookup(found) ==
  /\ Discovering
  /\ pc[0] = "idle"
  /\ IF found THEN DiscoverAcrossPlatforms ELSE DiscoverLookup(TheJob, FALSE, 0)

\* saveDiscoveredAccounts(userId, analysisResults.accounts) is called
SaveAnalyzedAccounts ==
  /\ Discovering
  /\ Analyzed
  /\ saveLoop.pass = 0
  /\ BeginSave(value.accounts)
  /\ ret' = NoReturn
  /\ UNCHANGED <<activeJobs, jobHistory, jobs, nextJobId, calls, config,
                 pc, chunkIdx, taskState, delays, args, chunking, value, tasks, probe, store>>

\* a completion that fails the job when one of its tasks failed
StatusByTasks(results) ==
  IF \E t \in 1..Len(results) : ~results[t].success THEN "failed" ELSE "completed"

\* job.status = 'completed' once discoverUserAccounts has returned its results
StatusOf(results) == "completed"

\* User.findByIdAndUpdate answers: discoverUserAccounts returns, or rethrows the
\* error of the update, and executeDiscovery ends the job
UpdateLastDiscovery(ok) ==
  /\ Discovering
  /\ SaveReturned
  /\ IF ok
     THEN FinishJob(TheJob, StatusOf(Results))
     ELSE FailJob(TheJob, "update failed")
  /\ ret' = NoReturn
  /\ UNCHANGED <<nextJobId, calls, config, detail>>

JobInit ==
  /\ maxActiveJobs = 1
  /\ maxConcurrentDiscoveries = 2
  /\ maxRetryAttempts = 0
  /\ InitManager
  /\ InitDb
  /\ pc = [r \in Runs |-> "idle"]
  /\ chunkIdx = [r \in Runs |-> 0]
  /\ taskState = [r \in Runs |-> <<>>]
  /\ delays = [r \in Runs |-> 0]
  /\ args \in [identifiers : DistinctSeqs(IdentifierPool, MaxIdentifiers),
               platforms : DistinctSeqs(PlatformPool, 2)]
  /\ value = <<>>
  /\ chunking = NotChunking
  /\ tasks = <<>>
  /\ probe = <<>>

JobNext ==
  \/ StartJob
  \/ \E found \in BOOLEAN : JobLookup(found)
  \/ \E t \in 1..MaxTasks : \E how \in {"found", "notfound", "rejected", "timeout"} :
       AttemptSettles(t, how)
  \/ \E t \in 1..MaxTasks : AdapterNotFound(t)
  \/ ChunkDelayElapsed
  \/ AnalyzeResults
  \/ SaveAnalyzedAccounts
  \/ SaveAccount
  \/ \E ok \in BOOLEAN : UpdateLastDiscovery(ok)
  \/ CancelJob(TheJob)
  \/ Tick
  \/ CleanupStaleJobs

JobSpec == JobInit /\ [][JobNext]_vars

\* the job has ended: executeDiscovery has run its finally block
JobEnded == pc[TheJob] = "done"


\* C24: when the user lookup has found the user and the timestamp update
\* succeeds, the job ends with status completed, however many of its tasks
\* failed or timed out; a job that ended failed carries the error of one of
\* those two job-level steps
C24_TaskFailuresNeverFailJob ==
  /\ [](JobEnded /\ HasHistory(jobHistory, TheJob)
          /\ HistoryStatus(jobHistory, TheJob) = "failed"
        => HistoryError(jobHistory, TheJob) \in {"User not found", "update failed"})
  /\ [][ UpdateLastDiscovery(TRUE) =>
           /\ HasHistory(jobHistory', TheJob)
           /\ HistoryStatus(jobHistory', TheJob) = "completed"
           /\ HistoryError(jobHistory', TheJob) \in {"none", "Job timed out"} ]_vars

\* a job of at least two tasks, every one of them failed (its probe rejected,
\* timed out or had no adapter), has ended completed
C24_Witness ==
  /\ JobEnded
  /\ HasHistory(jobHistory, TheJob)
  /\ HistoryStatus(jobHistory, TheJob) = "completed"
  /\ Len(probe) >= 2
  /\ WithOutcome("failed") = DOMAIN probe
  /\ value.accounts = <<>>


\* C25: an account whose save fails does not stop the loop: when
\* saveDiscoveredAccounts returns, it has tried every account of its argument;
\* an iteration adds its account to savedAccounts exactly when it wrote the
\* document to the collection, and changes nothing of the job; a job whose
\* save loop lost an account ends completed when the timestamp update succeeds
C25_FailedSaveIsSkipped ==
  /\ [](SaveReturned => saveLoop.attempted = 1..Len(saveLoop.accounts))
  /\ [][ /\ Saving /\ saveLoop' # saveLoop =>
              /\ UNCHANGED <<activeJobs, jobHistory, jobs, pc>>
              /\ saveLoop'.attempted = saveLoop.attempted \cup {saveLoop.next}
              /\ IF store' # store
                 THEN /\ Len(saveLoop'.savedAccounts) = Len(saveLoop.savedAccounts) + 1
                      /\ LET entry == saveLoop'.savedAccounts[Len(saveLoop'.savedAccounts)]
                         IN  /\ entry.account = saveLoop.next
                             /\ store'[entry.doc].updatedAt = LastWrite + 1
                 ELSE saveLoop'.savedAccounts = saveLoop.savedAccounts
         /\ UpdateLastDiscovery(TRUE) /\ SavedNow # 1..Len(saveLoop.accounts) =>
              HistoryStatus(jobHistory', TheJob) = "completed" ]_vars

\* the save of the first account failed, a later account was saved, and the
\* job has ended completed
C25_Witness ==
  /\ JobEnded
  /\ HasHistory(jobHistory, TheJob)
  /\ HistoryStatus(jobHistory, TheJob) = "completed"
  /\ SaveReturned
  /\ Len(saveLoop.accounts) >= 2
  /\ 1 \notin SavedNow
  /\ \E n \in SavedNow : n > 1
  /\ Len(store) = Cardinality(SavedNow)


\* the job id was issued and the job is in a terminal state: its status is
\* terminal, or its execution has ended
Ended(j) == j <= nextJobId /\ jobs[j].status \notin NonTerminal

\* C26: cancelJob(j) returns true exactly when job j is in the active registry
\* with a non-terminal status; then the job has status cancelled, the history
\* holds it as cancelled and the registry does not hold it. For an id that was
\* never issued and for a job in a terminal state it returns false and leaves
\* the registry and the history as they were
C26_CancelReturnsTrueIffLive ==
  [][ \A j \in JobIds :
        CancelJob(j) =>
          LET live == j \in ActiveIds(activeJobs) /\ jobs[j].status \in NonTerminal
          IN  /\ ret'.op = "cancelJob"
              /\ (ret'.result = "true") <=> live
              /\ live =>
                   /\ jobs'[j].status = "cancelled"
                   /\ HasHistory(jobHistory', j)
                   /\ HistoryStatus(jobHistory', j) = "cancelled"
                   /\ j \notin ActiveIds(activeJobs')
                   /\ Len(activeJobs') = Len(activeJobs) - 1
              /\ (j > nextJobId \/ Ended(j)) =>
                   /\ ret'.result = "false"
                   /\ UNCHANGED <<activeJobs, jobHistory, jobs>> ]_vars

\* a cancelJob call has returned true for a job and a later one false for the
\* same job, which is in the history as cancelled
C26_Witness ==
  /\ ret.op = "cancelJob"
  /\ ret.result = "false"
  /\ \E j \in JobIds :
       /\ jobs[j].cancelled
       /\ HasHistory(jobHistory, j)
       /\ HistoryStatus(jobHistory, j) = "cancelled"
       /\ j \notin ActiveIds(activeJobs)


\* C27: getJobStatus returns null for a job id that was never issued, the live
\* status for an issued job that is in no terminal state (such a job was never
\* put into the history, so it cannot have been evicted from it), and a
\* terminal status or, after eviction, null for a job in a terminal state
C27_StatusKnownUntilEvicted ==
  \A j \in JobIds :
     /\ j > nextJobId => GetJobStatus(j) = "null"
     /\ j <= nextJobId /\ jobs[j].status \in NonTerminal =>
          GetJobStatus(j) = jobs[j].status
     /\ Ended(j) => GetJobStatus(j) \in Terminal \cup {"null"}


(***************************************************************************)
(* prepareDiscoveryIdentifiers. A string is the sequence of its            *)
(* characters; the empty string stands for a field the profile lacks.      *)
(***************************************************************************)
MaxAlternatives == 1
MaxUsernames == 1

\* String.prototype.toLowerCase, on the letters the profiles use
ToLowerCase(str) == [i \in DOMAIN str |-> IF str[i] = "A" THEN "a" ELSE str[i]]

\* str.split(sep): the pieces between the separators
RECURSIVE SplitFrom(_, _, _, _)
SplitFrom(str, sep, i, piece) ==
  IF i > Len(str) THEN <<piece>>
  ELSE IF str[i] = sep THEN <<piece>> \o SplitFrom(str, sep, i + 1, <<>>)
  ELSE SplitFrom(str, sep, i + 1, Append(piece, str[i]))

Split(str, sep) == SplitFrom(str, sep, 1, <<>>)

\* str.replace(/[...]/g, ''): the string without the characters of the class
Without(str, class) == SelectSeq(str, LAMBDA c : c \notin class)

\* [...new Set(list)]: the first occurrence of every element, in order
RECURSIVE UniqueFrom(_, _)
UniqueFrom(list, kept) ==
  IF list = <<>> THEN kept
  ELSE UniqueFrom(Tail(list),
                  IF \E i \in DOMAIN kept : kept[i] = Head(list)
                  THEN kept ELSE Append(kept, Head(list)))

Unique(list) == UniqueFrom(list, <<>>)

generateEmailVariations(email) ==
  LET localPart == Split(email, "@")[1]
      withoutNumbers == Without(localPart, {"0", "1", "2", "3", "4", "5", "6", "7", "8", "9"})
      normalized == Without(localPart, {".", "_"})
      variations ==
        <<localPart>>
        \o (IF withoutNumbers # localPart /\ Len(withoutNumbers) > 3
            THEN <<withoutNumbers>> ELSE <<>>)
        \o (IF normalized # localPart /\ Len(normalized) > 3
            THEN <<normalized>> ELSE <<>>)
        \o << localPart \o <<"0", "1">>,
              localPart \o <<"1">>,
              localPart \o <<"_">>,
              <<"_">> \o localPart,
              localPart \o <<".", "o", "f", "f", "i", "c", "i", "a", "l">> >>
  IN  SelectSeq(Unique(variations), LAMBDA v : Len(v) >= 3)

generateNameVariations(fullName) ==
  LET names == SelectSeq(Split(ToLowerCase(fullName), " "), LAMBDA n : Len(n) > 1)
      first == names[1]
      last == names[2]
      pairs == IF Len(names) >= 2
               THEN << first \o last,
                       first \o <<"_">> \o last,
                       first \o <<".">> \o last,
                       first \o <<last[1]>>,
                       <<first[1]>> \o last,
                       last \o first,
                       last \o <<"_">> \o first,
                       last \o <<".">> \o first >>
               ELSE <<>>
  IN  IF Len(names) = 0 THEN <<>>
      ELSE Unique(pairs \o SelectSeq(names, LAMBDA n : Len(n) >= 4))

\* the identifiers.push of one block of prepareDiscoveryIdentifiers
Identifiers(values, type, confidence, source) ==
  [ i \in DOMAIN values |->
      [type |-> type, value |-> values[i], confidence |-> confidence, source |-> source] ]

prepareDiscoveryIdentifiers(user) ==
  (IF user.email # <<>> THEN Identifiers(<<user.email>>, "email", 100, "primary_email")
   ELSE <<>>)
  \o Identifiers(user.alternativeEmails, "email", 90, "alternative_email")
  \o Identifiers(user.phoneNumbers, "phone", 85, "phone_number")
  \o Identifiers(user.commonUsernames, "username", 75, "common_username")
  \o (IF user.email # <<>>
      THEN Identifiers(generateEmailVariations(user.email), "username", 60, "email_variation")
      ELSE <<>>)
  \o (IF user.fullName # <<>>
      THEN Identifiers(generateNameVariations(user.fullName), "username", 50, "name_variation")
      ELSE <<>>)

\* the lists of at most n elements of S, the empty one included
ListsUpTo(S, n) == UNION { [1..k -> S] : k \in 0..n }

\* the profiles of the requester: two addresses (one with a digit and a dot in
\* its local part), usernames that an email or a name variation also yields
\* and one that none yields, full names of one and two words
Profiles ==
  LET emails == { <<"a", "n", "n", "@", "m">>, <<"a", "n", ".", "n", "a", "1", "@", "m">> }
      usernames == { <<"a", "n", "n">>, <<"a", "n", "n", "l", "e", "e">>, <<"b", "o", "b">> }
      names == { <<>>, <<"A", "n", "n", " ", "l", "e", "e">>, <<"a", "n", "n", "a">> }
  IN  [ email : emails \cup {<<>>},
        alternativeEmails : ListsUpTo(emails, MaxAlternatives),
        phoneNumbers : ListsUpTo({<<"5", "5", "5">>}, 1),
        commonUsernames : ListsUpTo(usernames, MaxUsernames),
        fullName : names ]

(***************************************************************************)
(* IdentifierSpec: prepareDiscoveryIdentifiers on every profile.           *)
(***************************************************************************)
IdentifierInit ==
  /\ maxActiveJobs = 1
  /\ maxConcurrentDiscoveries = 1
  /\ maxRetryAttempts = 3
  /\ InitManager
  /\ InitDb
  /\ pc = [r \in Runs |-> "idle"]
  /\ chunkIdx = [r \in Runs |-> 0]
  /\ taskState = [r \in Runs |-> <<>>]
  /\ delays = [r \in Runs |-> 0]
  /\ args \in Profiles
  /\ value = <<>>
  /\ chunking = NotChunking
  /\ tasks = <<>>
  /\ probe = <<>>

PrepareIdentifiers ==
  /\ pc[0] = "idle"
  /\ value' = prepareDiscoveryIdentifiers(args)
  /\ pc' = [pc EXCEPT ![0] = "done"]
  /\ ret' = NoReturn
  /\ UNCHANGED <<activeJobs, jobHistory, jobs, nextJobId, calls, config,
                 chunkIdx, taskState, delays, args, chunking, tasks, probe, db>>

IdentifierSpec == IdentifierInit /\ [][PrepareIdentifiers]_vars

\* C28: the list that prepareDiscoveryIdentifiers returns has no two entries
\* with the same type and the same value
C28_NoDuplicateIdentifiers ==
  pc[0] = "done" =>
    \A i, j \in DOMAIN value :
       i # j => ~(value[i].type = value[j].type /\ value[i].value = value[j].value)


(***************************************************************************)
(* selectPlatformsForDiscovery over the platform registry. An option that  *)
(* is not given is "undefined"; a list option is [given, keys].            *)
(***************************************************************************)
\* platforms.sort((a, b) => b.priority - a.priority): a stable sort, the
\* platform p put behind the ones of the sorted list that do not have a lower
\* priority
RECURSIVE InsertByPriority(_, _)
InsertByPriority(sorted, p) ==
  IF sorted = <<>> THEN <<p>>
  ELSE IF Head(sorted).priority >= p.priority
       THEN <<Head(sorted)>> \o InsertByPriority(Tail(sorted), p)
       ELSE <<p>> \o sorted

RECURSIVE SortByPriority(_)
SortByPriority(platforms) ==
  IF platforms = <<>> THEN <<>>
  ELSE InsertByPriority(SortByPriority(SubSeq(platforms, 1, Len(platforms) - 1)),
                        platforms[Len(platforms)])

\* registry.getSupportedPlatforms({popular, category}) over the values of
\* platformConfigs, in insertion order
getSupportedPlatforms(platformConfigs, popular, category) ==
  LET ofCategory == IF category # "undefined"
                    THEN SelectSeq(platformConfigs, LAMBDA p : p.category = category)
                    ELSE platformConfigs
      ofPopularity == IF popular # "undefined"
                      THEN SelectSeq(ofCategory, LAMBDA p : p.popular = popular)
                      ELSE ofCategory
  IN  SortByPriority(ofPopularity)

selectPlatformsForDiscovery(platformConfigs, options) ==
  LET platforms == getSupportedPlatforms(platformConfigs, options.popularOnly,
                                         options.category)
      included == IF options.includePlatforms.given /\ Len(options.includePlatforms.keys) > 0
                  THEN SelectSeq(platforms,
                         LAMBDA p : p.key \in SeqToSet(options.includePlatforms.keys))
                  ELSE platforms
  IN  IF options.excludePlatforms.given /\ Len(options.excludePlatforms.keys) > 0
      THEN SelectSeq(included,
             LAMBDA p : p.key \notin SeqToSet(options.excludePlatforms.keys))
      ELSE included

(***************************************************************************)
(* SelectSpec: selectPlatformsForDiscovery for every option object, over   *)
(* the built-in registry and over registries with further platforms        *)
(* registered (one with the configuration defaults of register, one with   *)
(* the priority of a built-in platform).                                   *)
(***************************************************************************)
SelectInit ==
  /\ maxActiveJobs = 1
  /\ maxConcurrentDiscoveries = 1
  /\ maxRetryAttempts = 3
  /\ InitManager
  /\ InitDb
  /\ pc = [r \in Runs |-> "idle"]
  /\ chunkIdx = [r \in Runs |-> 0]
  /\ taskState = [r \in Runs |-> <<>>]
  /\ delays = [r \in Runs |-> 0]
  /\ LET builtIn ==
           << [key |-> "twitter", category |-> "social_media", priority |-> 100,
               popular |-> "true"],
              [key |-> "facebook", category |-> "social_media", priority |-> 95,
               popular |-> "true"] >>
         registered ==
           { [key |-> "linkedin", category |-> "other", priority |-> 0,
              popular |-> "false"],
             [key |-> "mastodon", category |-> "social_media", priority |-> 100,
              popular |-> "false"] }
         lists == { <<>>, <<"twitter">>, <<"facebook", "linkedin">>, <<"mastodon", "vk">> }
         given == { [given |-> TRUE, keys |-> keys] : keys \in lists }
                    \cup { [given |-> FALSE, keys |-> <<>>] }
     IN  args \in [ platformConfigs :
                      { builtIn \o more : more \in DistinctSeqs(registered, 2) \cup {<<>>} },
                    options : [ includePlatforms : given,
                                excludePlatforms : given,
                                popularOnly : {"undefined", "true", "false"},
                                category : {"undefined", "social_media", "other"} ] ]
  /\ value = <<>>
  /\ chunking = NotChunking
  /\ tasks = <<>>
  /\ probe = <<>>

\* discoverUserAccounts selects the platforms of the run
SelectPlatforms ==
  /\ pc[0] = "idle"
  /\ value' = selectPlatformsForDiscovery(args.platformConfigs, args.options)
  /\ pc' = [pc EXCEPT ![0] = "done"]
  /\ ret' = NoReturn
  /\ UNCHANGED <<activeJobs, jobHistory, jobs, nextJobId, calls, config,
                 chunkIdx, taskState, delays, args, chunking, tasks, probe, db>>

SelectSpec == SelectInit /\ [][SelectPlatforms]_vars

\* C29: the list returned holds exactly the platforms of the registry that are
\* in includePlatforms (when given and not empty), are not in excludePlatforms,
\* are of the category (when given) and are popular when popularOnly is true,
\* popularOnly false filtering nothing; each once, by descending priority; the
\* registry is as it was
C29_SelectionIsSortedFilter ==
  [][ SelectPlatforms =>
        LET options == args.options
            wanted ==
              { p \in SeqToSet(args.platformConfigs) :
                  /\ options.includePlatforms.given /\ options.includePlatforms.keys # <<>>
                       => p.key \in SeqToSet(options.includePlatforms.keys)
                  /\ p.key \notin SeqToSet(options.excludePlatforms.keys)
                  /\ options.category # "undefined" => p.category = options.category
                  /\ options.popularOnly = "true" => p.popular = "true" }
        IN  /\ SeqToSet(value') = wanted
            /\ Len(value') = Cardinality(wanted)
            /\ \A i, j \in DOMAIN value' : i < j => value'[i].priority >= value'[j].priority
            /\ args' = args ]_vars


\* C30: in the aggregation of a job's results the platforms counted are the
\* platforms of its tasks, and for each of them searched is the number of its
\* tasks, errors the number of its failed tasks, found the number of its tasks
\* that found an account, and found + errors <= searched
C30_PlatformCounters ==
  Analyzed =>
    /\ DOMAIN value.platformStats = { tasks[t].platform : t \in DOMAIN tasks }
    /\ \A platform \in DOMAIN value.platformStats :
         LET stats == value.platformStats[platform]
             of(outcomes) == { t \in DOMAIN tasks : /\ tasks[t].platform = platform
                                                    /\ probe[t].outcome \in outcomes }
         IN  /\ stats.searched = Cardinality(of({"found", "notfound", "failed"}))
             /\ stats.searched = Cardinality({ t \in DOMAIN tasks :
                                                 tasks[t].platform = platform })
             /\ stats.errors = Cardinality(of({"failed"}))
             /\ stats.found = Cardinality(of({"found"}))
             /\ stats.found + stats.errors <= stats.searched

\* a job has ended completed with a platform all of whose tasks failed and a
\* platform with a found, a failed and a not found task
C30_Witness ==
  /\ JobEnded
  /\ HasHistory(jobHistory, TheJob)
  /\ HistoryStatus(jobHistory, TheJob) = "completed"
  /\ Analyzed
  /\ \E p, q \in DOMAIN value.platformStats :
       /\ value.platformStats[p].errors = value.platformStats[p].searched
       /\ value.platformStats[q].errors = 1
       /\ value.platformStats[q].found = 1
       /\ value.platformStats[q].searched = 3


(***************************************************************************)
(* Probes that could not tell, jobs of one requester, executions.          *)
(***************************************************************************)
\* the results with every exists: null answered as exists: false
AsNotFound(discoveryResults) ==
  [ i \in DOMAIN discoveryResults |->
      IF discoveryResults[i].result.exists = "null"
      THEN [discoveryResults[i] EXCEPT !.result.exists = "false"]
      ELSE discoveryResults[i] ]

\* the successful results of the arguments whose probe could not tell
Unknown == { i \in 1..Len(args) : args[i].success /\ args[i].result.exists = "null" }

\* C31: a successful result with exists: null gives no account and counts
\* neither as found nor as an error: the accounts are those of the results with
\* exists: true, found and errors count these and the failed results, and the
\* whole output is the one of the same results with exists: false in its place
C31_UnknownIsNotFound ==
  Analyzed =>
    /\ value = analyzeDiscoveryResults(AsNotFound(args))
    /\ value.originalAccountCount
         = Cardinality({ i \in 1..Len(args) : args[i].success
                                              /\ args[i].result.exists = "true" })
    /\ \A platform \in DOMAIN value.platformStats :
         LET of == { i \in 1..Len(args) : args[i].platform = platform }
         IN  /\ value.platformStats[platform].found
                  = Cardinality({ i \in of \ Unknown : Found(args[i]) })
             /\ value.platformStats[platform].errors
                  = Cardinality({ i \in of \ Unknown : ~args[i].success })
             /\ value.platformStats[platform].searched = Cardinality(of)

\* the aggregation of a probe that could not tell, one that found the account
\* and one that answered exists: false
C31_Witness ==
  /\ Analyzed
  /\ Unknown # {}
  /\ \E i, j \in 1..Len(args) :
       /\ Found(args[i])
       /\ args[j].success
       /\ args[j].result.exists = "false"


\* C32: the step in which the execution of a job ends takes no other job out
\* of the active registry
C32_EndRemovesOwnEntryOnly ==
  [][ \A j \in JobIds :
        pc[j] # "done" /\ pc'[j] = "done" =>
          \A k \in ActiveIds(activeJobs) \ {j} : k \in ActiveIds(activeJobs') ]_vars


\* the jobs whose executeDiscovery has started and has not ended
Executing == { j \in JobIds : pc[j] \notin {"idle", "done"} }

\* C33: at most maxActiveJobs executions run at the same time, the executions
\* of cancelled and timed out jobs included
C33_ExecutionsBounded == Cardinality(Executing) <= maxActiveJobs


\* C34: once the job is cancelled or timed out, no step writes a document of
\* the account collection, and the timestamp update of the requester is not
\* made
C34_NoWriteAfterCancel ==
  [][ jobs[TheJob].status \in {"cancelled", "timeout"} =>
        /\ store' = store
        /\ ~UpdateLastDiscovery(TRUE) ]_vars


\* the adapter calls of task t that were issued and have not returned: the one
\* its current attempt waits for, and the ones its earlier attempts left
\* behind when the timeout won the race (Promise.race does not end them)
Outstanding(t) ==
  (IF probe[t].phase = "probing" THEN 1 ELSE 0) + probe[t].timeouts

\* C35: the adapter calls issued and not returned, the abandoned ones of the
\* running tasks included, are at most maxConcurrentDiscoveries
C35_CallsInFlightBounded ==
  SumUpTo([t \in 1..Len(probe) |-> Outstanding(t)], Len(probe))
    <= maxConcurrentDiscoveries


\* C36: every entry of the history has a terminal status, and no job is in the
\* active registry and in the history at the same time
C36_HistoryIsTerminal ==
  /\ \A i \in 1..Len(jobHistory) : jobHistory[i].status \in Terminal
  /\ \A j \in ActiveIds(activeJobs) : ~HasHistory(jobHistory, j)

\* the history is full, with a job that ended and one that was cancelled or
\* timed out and still runs, while a later job is in the registry
C36_Witness ==
  /\ Len(jobHistory) = HistoryLimit
  /\ Len(activeJobs) > 0
  /\ \E i, k \in 1..Len(jobHistory) :
       /\ pc[jobHistory[i].id] = "done"
       /\ pc[jobHistory[k].id] = "lookup"
       /\ jobHistory[k].status \in {"cancelled", "timeout"}


\* C37: in the first delivery, whose accounts differ in their platform or in
\* their identifier value and which starts with an empty collection, every
\* write makes a new document: none updates the document of an earlier account
C37_SeparateRecords ==
  [][ saveLoop.pass = 1 /\ Saving /\ store' # store =>
        /\ Len(store') = Len(store) + 1
        /\ \A k \in 1..Len(store) : store'[k] = store[k] ]_vars


\* C38: the aggregation keeps one account for every platform and identifier
\* value that was found: two found results of a platform with different
\* identifier values are never merged
C38_DistinctValuesStayApart ==
  Analyzed =>
    Len(value.accounts)
      >= Cardinality({ <<args[i].platform, args[i].identifier.value>> : i \in FoundResults })


\* the sum of a counter over the entries of a statistics object
RECURSIVE Total(_, _, _)
Total(stats, counter, keys) ==
  IF keys = {} THEN 0
  ELSE LET key == CHOOSE k \in keys : TRUE
       IN  stats[key][counter] + Total(stats, counter, keys \ {key})

\* C39: after an aggregation the searched counters of the platforms and of
\* the identifier sources have the same sum, and so have the found counters
C39_CounterSetsAgree ==
  Analyzed =>
    /\ Total(value.platformStats, "searched", DOMAIN value.platformStats)
         = Total(value.identifierStats, "searched", DOMAIN value.identifierStats)
    /\ Total(value.platformStats, "found", DOMAIN value.platformStats)
         = Total(value.identifierStats, "found", DOMAIN value.identifierStats)


(***************************************************************************)
(* ChunkSpec: executeDiscoveryAcrossPlatforms called directly, the loop of *)
(* chunkArray taken one iteration at a time, for every limit the           *)
(* configuration can hold: the constructor copies                          *)
(* config.maxConcurrentDiscoveries as it is given.                         *)
(***************************************************************************)
\* the number of chunks the heap has room for
MaxChunks == 8

\* the limits a configuration is given: a negative one, zero, positive ones
Limits == {-1, 0} \cup 1..MaxLimit

\* the index array.slice makes of an argument: counted from the end when
\* negative, and kept within the array
SliceIndex(length, k) ==
  IF k < 0 THEN (IF length + k < 0 THEN 0 ELSE length + k) ELSE Min(k, length)

\* array.slice(start, end)
slice(array, start, end) ==
  SubSeq(array, SliceIndex(Len(array), start) + 1, SliceIndex(Len(array), end))

\* chunkArray has been called and has not returned
Chunking == pc[0] = "chunking"

\* executeDiscoveryAcrossPlatforms builds its n tasks and calls chunkArray:
\* chunks = [] and i = 0
CallChunkArray(n) ==
  /\ pc[0] \in {"idle", "done"}
  /\ pc' = [pc EXCEPT ![0] = "chunking"]
  /\ taskState' = [taskState EXCEPT ![0] = [t \in 1..n |-> "pending"]]
  /\ chunkIdx' = [chunkIdx EXCEPT ![0] = 0]
  /\ delays' = [delays EXCEPT ![0] = 0]
  /\ chunking' = NotChunking
  /\ ret' = NoReturn
  /\ UNCHANGED <<activeJobs, jobHistory, jobs, nextJobId, calls, config,
                 args, value, tasks, probe, db>>

\* one iteration of the for loop of chunkArray: i < array.length, the slice
\* is pushed and i += chunkSize
ChunkArrayIteration ==
  /\ Chunking
  /\ chunking.i < Len(taskState[0])
  /\ Len(chunking.chunks) < MaxChunks
  /\ chunking' =
       [i |-> chunking.i + maxConcurrentDiscoveries,
        chunks |-> Append(chunking.chunks,
                          slice([t \in 1..Len(taskState[0]) |-> t], chunking.i,
                                chunking.i + maxConcurrentDiscoveries))]
  /\ ret' = NoReturn
  /\ UNCHANGED <<activeJobs, jobHistory, jobs, nextJobId, calls, config, pc,
                 chunkIdx, taskState, delays, args, value, tasks, probe, db>>

\* the loop is left, chunkArray returns its chunks and
\* executeDiscoveryAcrossPlatforms starts on them
ChunkArrayReturns ==
  /\ Chunking
  /\ chunking.i >= Len(taskState[0])
  /\ chunking.chunks = TaskChunks(0)
  /\ ExecuteDiscoveryAcrossPlatforms(0, Len(taskState[0]))
  /\ chunking' = NotChunking
  /\ ret' = NoReturn
  /\ UNCHANGED <<nextJobId, calls, config, args, value, tasks, probe, db>>

\* the push that finds no room in the heap ends the process: nothing is
\* returned
HeapExhausted ==
  /\ Chunking
  /\ chunking.i < Len(taskState[0])
  /\ Len(chunking.chunks) = MaxChunks
  /\ pc' = [pc EXCEPT ![0] = "aborted"]
  /\ ret' = NoReturn
  /\ UNCHANGED <<activeJobs, jobHistory, jobs, nextJobId, calls, config,
                 chunkIdx, taskState, delays, detail>>

\* new AccountDiscoveryEngine({maxConcurrentDiscoveries: limit})
ChunkInit ==
  /\ maxActiveJobs = 1
  /\ maxConcurrentDiscoveries \in Limits
  /\ maxRetryAttempts = 3
  /\ InitManager
  /\ InitRuns

ChunkNext ==
  \/ \E n \in 0..MaxTasks : CallChunkArray(n)
  \/ ChunkArrayIteration
  \/ ChunkArrayReturns
  \/ HeapExhausted
  \/ \E t \in 1..MaxTasks : SettleTask(0, t)
  \/ DelayElapsed(0)

\* the loop runs on, every probe settles or is cut off by its timeout, every
\* sleep ends
ChunkSpec ==
  /\ ChunkInit
  /\ [][ChunkNext]_vars
  /\ WF_vars(ChunkArrayIteration)
  /\ WF_vars(ChunkArrayReturns)
  /\ WF_vars(HeapExhausted)
  /\ WF_vars(\E t \in 1..MaxTasks : SettleTask(0, t))
  /\ WF_vars(DelayElapsed(0))

\* C40: a call of executeDiscoveryAcrossPlatforms returns its results, with
\* every limit the configuration holds and every number of tasks
C40_AcrossPlatformsTerminates == (pc[0] \notin {"idle", "done"}) ~> (pc[0] = "done")

====
